---- MODULE Spec2Model ----
(***************************************************************************)
(* WhatsApp marketplace: the conversational agent (rule-based and          *)
(* AI-backed), its session stores and the webhook that drives it.          *)
(*                                                                         *)
(* A message is a sequence of tokens.  A regular expression of the source  *)
(* is modelled by the set of vocabulary words that contain one of its      *)
(* alternatives as a substring (the patterns have no word boundaries), and *)
(* by the token kinds that carry digits, a currency or the star glyph.     *)
(***************************************************************************)
EXTENDS Integers, Sequences, FiniteSets, TLC

\* ------------------------------------------------------------------ bounds
\* Number of webhook messages the environment sends in one behaviour: to a
\* freshly started rule-based deployment, to a freshly started AI-backed
\* deployment, and to a deployment that already holds a session.
MaxTurns == 3
MaxAiTurns == 2
MaxStoredTurns == 1

Users == {"u1", "u2"}

\* ------------------------------------------------------------------ tokens
W(w)        == [k |-> "w",     w |-> w,   n |-> 0]
Num(n)      == [k |-> "num",   w |-> "",  n |-> n]
Id(n)       == [k |-> "id",    w |-> "",  n |-> n]   \* "#n"
Price(n, c) == [k |-> "price", w |-> c,   n |-> n]   \* "n c", c a currency token
Star(n)     == [k |-> "star",  w |-> "",  n |-> n]   \* n adjacent star glyphs
Cmd(w)      == [k |-> "cmd",   w |-> w,   n |-> 0]   \* "!w"
Link(code)  == [k |-> "link",  w |-> code, n |-> 0]  \* "chat.whatsapp.com/code"
Sym         == [k |-> "sym",   w |-> "",  n |-> 0]   \* a pictograph, or "1."
\* Tokens stand one blank apart; Newline stands where a line break is between
\* two tokens in place of the blank.
Newline     == [k |-> "ws",    w |-> "",  n |-> 0]

\* toLowerCase on the words of the corpus (the others are in lower case).
Lower(w) ==
  CASE w = "FCFA"   -> "fcfa"
    [] w = "BOOST"  -> "boost"
    [] w = "My"     -> "my"
    [] w = "Group"  -> "group"
    [] w = "Cancel" -> "cancel"
    [] w = "Buy"    -> "buy"
    [] w = "Now"    -> "now"
    [] w = "Payment" -> "payment"
    [] w = "Sent"   -> "sent"
    [] w = "Back"   -> "back"
    [] w = "Search" -> "search"
    [] w = "Electronics" -> "electronics"
    [] OTHER        -> w

\* The patterns of the extractor carry the i flag.
IsWord(t, S) == t.k = "w" /\ Lower(t.w) \in S
HasDigits(t) == t.k \in {"num", "id"}

\* JavaScript values held in a context: strings (word sequences), numbers,
\* the value undefined, and Absent for a key the object does not have.
StrV(ws)  == [t |-> "str",   n |-> 0, s |-> ws]
NumV(n)   == [t |-> "num",   n |-> n, s |-> <<>>]
Undefined == [t |-> "undef", n |-> 0, s |-> <<>>]
Absent    == [t |-> "absent", n |-> 0, s |-> <<>>]
Truthy(v) == (v.t = "str" /\ v.s # <<>>) \/ (v.t = "num" /\ v.n # 0)

\* The keys of an entities object and of a session context.  An object is a
\* function on ContextKeys; a key it does not have maps to Absent.
EntityKeys == {"rawQuery", "minPrice", "maxPrice", "exactPrice", "currency",
               "location", "category", "query", "productId", "rating"}
ContextKeys == EntityKeys \cup {"currentProductId"}
EmptyContext == [key \in ContextKeys |-> Absent]
NoEntities == EmptyContext

\* ------------------------------------------------------- entity extractor
\* Vocabulary words matched by each pattern of INTENT_PATTERNS.
SearchVerbWords  == {"find", "search"}
SearchNounWords  == {"products", "product", "seller"}
HelpWords        == {"help"}
SelectWords      == {"view"}
BuyWords         == {"buy", "payment"}
ContactVerbWords == {"contact"}
ContactNounWords == {"seller"}
CancelWords      == {"cancel", "back"}
RefineWords      == {"refine"}
RatingWords      == {"stars", "rate"}
ConfirmVerbWords == {"confirm", "paid", "sent"}
ConfirmNounWords == {"payment", "money"}
\* Words of the other patterns of extractEntities.
UnderWords       == {"under"}
OverWords        == {"over"}
LocationPreps    == {"in"}
CategoryVerbs    == {"find"}
CategoryStops    == {"in", "under", "over"}
ProductNouns     == {"product"}
StarWords        == {"stars"}
RateWords        == {"rate"}

Contains(toks, S) == \E i \in 1..Len(toks) : IsWord(toks[i], S)

\* Characters of a token as it stands in the text (the sizes of the corpus).
\* Numbers of the corpus have one digit, amounts four.
TokLen(t) ==
  CASE t.k = "w"     -> Len(t.w)
    [] t.k = "cmd"   -> Len(t.w) + 1
    [] t.k = "num"   -> 1
    [] t.k = "id"    -> 2
    [] t.k = "price" -> 5 + Len(t.w)
    [] t.k = "star"  -> t.n
    [] t.k = "link"  -> 18 + Len(t.w)
    [] t.k = "sym"   -> 2
    [] t.k = "ws"    -> 0 - 1

RECURSIVE TextLen(_)
TextLen(toks) ==
  IF toks = <<>> THEN 0
  ELSE TokLen(Head(toks)) + (IF Len(toks) > 1 THEN 1 ELSE 0) + TextLen(Tail(toks))

AllWords(toks) == \A i \in 1..Len(toks) : toks[i].k = "w"

Positions(toks, P(_)) == {i \in 1..Len(toks) : P(i)}
Min(S) == CHOOSE x \in S : \A y \in S : x <= y
Max(S) == CHOOSE x \in S : \A y \in S : x >= y

RECURSIVE RemoveAt(_, _, _)
RemoveAt(toks, S, i) ==
  IF i > Len(toks) THEN <<>>
  ELSE (IF i \in S THEN <<>> ELSE <<toks[i]>>) \o RemoveAt(toks, S, i + 1)

\* Lines 62-94: the price entities.  Two or more matches give a range, with
\* the currency of the lowest (the sort is stable: the leftmost of the lowest);
\* one match is a maximum, a minimum or an exact price by the qualifier words.
PricePositions(toks) == Positions(toks, LAMBDA i : toks[i].k = "price")

PriceEntities(toks) ==
  LET ps == PricePositions(toks)
      lo == Min({toks[i].n : i \in ps})
      hi == Max({toks[i].n : i \in ps})
      first == Min({i \in ps : toks[i].n = lo})
      one == toks[Min(ps)]
  IN  IF ps = {} THEN [rawQuery |-> StrV(toks)] @@ NoEntities
      ELSE IF Cardinality(ps) >= 2
      THEN [rawQuery |-> StrV(toks), minPrice |-> NumV(lo), maxPrice |-> NumV(hi),
            currency |-> StrV(<<W(toks[first].w)>>)] @@ NoEntities
      ELSE IF Contains(toks, UnderWords)
      THEN [rawQuery |-> StrV(toks), maxPrice |-> NumV(one.n),
            currency |-> StrV(<<W(one.w)>>)] @@ NoEntities
      ELSE IF Contains(toks, OverWords)
      THEN [rawQuery |-> StrV(toks), minPrice |-> NumV(one.n),
            currency |-> StrV(<<W(one.w)>>)] @@ NoEntities
      ELSE [rawQuery |-> StrV(toks), exactPrice |-> NumV(one.n),
            currency |-> StrV(<<W(one.w)>>)] @@ NoEntities

\* Lines 96-100, LOCATION_PATTERN: a preposition, then letters and blanks up
\* to the end of the text (the corpus has no punctuation, "and" or "or"); a
\* digit before the end makes the match fail at that preposition.
LocationStarts(toks) ==
  Positions(toks, LAMBDA i : /\ IsWord(toks[i], LocationPreps)
                             /\ i < Len(toks)
                             /\ AllWords(SubSeq(toks, i + 1, Len(toks))))

LocationOf(toks) ==
  IF LocationStarts(toks) = {} THEN Absent
  ELSE StrV(SubSeq(toks, Min(LocationStarts(toks)) + 1, Len(toks)))

\* Lines 102-106, CATEGORY_PATTERN: a verb, then letters and blanks up to the
\* end of the text or to " in ", " at ", " under ", " over ".
CategoryEnd(toks, i) ==
  LET stops == {j \in (i + 2)..(Len(toks) - 1) : IsWord(toks[j], CategoryStops)}
      e == IF stops = {} THEN Len(toks) ELSE Min(stops) - 1
  IN  IF i < Len(toks) /\ AllWords(SubSeq(toks, i + 1, e)) THEN e ELSE 0

CategoryStarts(toks) ==
  Positions(toks, LAMBDA i : IsWord(toks[i], CategoryVerbs) /\ CategoryEnd(toks, i) > 0)

CategoryOf(toks) ==
  IF CategoryStarts(toks) = {} THEN Absent
  ELSE LET i == Min(CategoryStarts(toks))
       IN  StrV(SubSeq(toks, i + 1, CategoryEnd(toks, i)))

\* Lines 108-131: the query is the category, else the text without its
\* prices and its location phrase, when more than two characters are left.
QueryOf(toks) ==
  LET ls == IF LocationStarts(toks) = {} THEN {}
            ELSE Min(LocationStarts(toks))..Len(toks)
      rest == RemoveAt(toks, PricePositions(toks) \cup ls, 1)
  IN  IF Truthy(CategoryOf(toks)) THEN CategoryOf(toks)
      ELSE IF TextLen(rest) > 2 THEN StrV(rest) ELSE Absent

\* Lines 133-138: "product #?<digits>" or a bare "#<digits>", leftmost match,
\* kept as a string of digits.
ProductIdStarts(toks) ==
  Positions(toks, LAMBDA i : \/ toks[i].k = "id"
                             \/ /\ IsWord(toks[i], ProductNouns)
                                /\ i < Len(toks)
                                /\ toks[i + 1].k \in {"num", "id", "price"})

ProductIdOf(toks) ==
  IF ProductIdStarts(toks) = {} THEN Absent
  ELSE LET i == Min(ProductIdStarts(toks))
       IN  StrV(<<Num(IF toks[i].k = "id" THEN toks[i].n ELSE toks[i + 1].n)>>)

\* Lines 140-153: "<digits> star(s)" or "rate <digits>", kept when in 1..5;
\* only when neither form occurs, the number of star glyphs, when in 1..5.
RatingStarts(toks) ==
  Positions(toks, LAMBDA i : /\ i < Len(toks)
                             /\ \/ HasDigits(toks[i]) /\ IsWord(toks[i + 1], StarWords)
                                \/ /\ IsWord(toks[i], RateWords)
                                   /\ toks[i + 1].k \in {"num", "price"})

RECURSIVE StarCount(_)
StarCount(toks) ==
  IF toks = <<>> THEN 0
  ELSE (IF Head(toks).k = "star" THEN Head(toks).n ELSE 0) + StarCount(Tail(toks))

RatingOf(toks) ==
  IF RatingStarts(toks) # {}
  THEN LET i == Min(RatingStarts(toks))
           r == IF HasDigits(toks[i]) THEN toks[i].n ELSE toks[i + 1].n
       IN  IF r >= 1 /\ r <= 5 THEN NumV(r) ELSE Absent
  ELSE IF StarCount(toks) >= 1 /\ StarCount(toks) <= 5 THEN NumV(StarCount(toks))
  ELSE Absent

\* /contact|message|chat|.../ also matches inside an invite link.
HasContactVerb(toks) ==
  Contains(toks, ContactVerbWords) \/ \E i \in 1..Len(toks) : toks[i].k = "link"

\* Lines 167-195.  The table is walked in the order of INTENT_PATTERNS; the
\* two entity short-circuits are taken when the walk reaches their entry.
determineIntent(toks, entities) ==
  IF Contains(toks, SearchVerbWords) /\ Contains(toks, SearchNounWords) THEN "search"
  ELSE IF Contains(toks, HelpWords) THEN "help"
  ELSE IF Truthy(entities.productId) \/ Contains(toks, SelectWords) THEN "select_product"
  ELSE IF Contains(toks, BuyWords) THEN "buy"
  ELSE IF HasContactVerb(toks) /\ Contains(toks, ContactNounWords)
       THEN "contact_seller"
  ELSE IF Contains(toks, CancelWords) THEN "cancel"
  ELSE IF Contains(toks, RefineWords) THEN "refine_search"
  ELSE IF Truthy(entities.rating) \/ Contains(toks, RatingWords) THEN "submit_rating"
  ELSE IF Contains(toks, ConfirmVerbWords) /\ Contains(toks, ConfirmNounWords)
       THEN "confirm_payment"
  ELSE IF \E key \in {"query", "category", "location", "minPrice", "maxPrice", "exactPrice"} :
            Truthy(entities[key])
       THEN "search"
  ELSE "help"

\* Lines 53-159: what the promise returned by extractEntities resolves to.
extractEntities(toks) ==
  LET entities == [PriceEntities(toks) EXCEPT
                     !.location  = LocationOf(toks),
                     !.category  = CategoryOf(toks),
                     !.query     = QueryOf(toks),
                     !.productId = ProductIdOf(toks),
                     !.rating    = RatingOf(toks)]
  IN  [entities |-> entities, intent |-> determineIntent(toks, entities)]

\* ------------------------------------------------------------------ corpus
\* The messages the environment sends.  text is the message as typed.
Msg(text, toks) == [text |-> text, toks |-> toks, type |-> "text"]
\* The title of a button the user tapped (an interactive button_reply).
\* The labels are written without their pictograph; the tokens keep it.
ButtonReply(text, toks) == [text |-> text, toks |-> toks, type |-> "button"]
BuyNowButton         == ButtonReply("Buy Now", <<Sym, W("Buy"), W("Now")>>)
BackToSearchButton   == ButtonReply("Back to Search", <<Sym, W("Back"), W("to"), W("Search")>>)
PaymentSentButton    == ButtonReply("Payment Sent", <<Sym, W("Payment"), W("Sent")>>)
CheckoutCancelButton == ButtonReply("Cancel", <<Sym, W("Cancel")>>)
QuickSelectButton    == ButtonReply("1. title", <<Sym, W("title")>>)
RegistrationCancelButton == ButtonReply("Cancel", <<W("Cancel")>>)
ElectronicsButton    == ButtonReply("Electronics", <<Sym, W("Electronics")>>)

Corpus ==
  { Msg("find products",       <<W("find"), W("products")>>),
    Msg("help",                <<W("help")>>),
    Msg("hi",                  <<W("hi")>>),
    Msg("product #3",          <<W("product"), Id(3)>>),
    Msg("view",                <<W("view")>>),
    Msg("buy",                 <<W("buy")>>),
    Msg("contact seller",      <<W("contact"), W("seller")>>),
    Msg("cancel",              <<W("cancel")>>),
    Msg("refine",              <<W("refine")>>),
    Msg("paid money",          <<W("paid"), W("money")>>),
    Msg("3 stars",             <<Num(3), W("stars")>>),
    Msg("9 stars",             <<Num(9), W("stars")>>),
    Msg("in douala",           <<W("in"), W("douala")>>),
    Msg("under 5000 FCFA",     <<W("under"), Price(5000, "FCFA")>>),
    Msg("!boost",              <<Cmd("boost")>>),
    Msg("!foo",                <<Cmd("foo")>>),
    Msg("!BOOST",              <<Cmd("BOOST")>>),
    Msg("!boost\nstatus",      <<Cmd("boost"), Newline, W("status")>>),
    Msg("register group",      <<W("register"), W("group")>>),
    Msg("chat.whatsapp.com/abc", <<Link("abc")>>),
    Msg("My Group",            <<W("My"), W("Group")>>),
    Msg("chat.whatsapp.com/ABC123", <<Link("ABC123")>>),
    Msg("electronics",         <<W("electronics")>>),
    Msg(" Cancel ",            <<W("Cancel")>>),
    BuyNowButton, BackToSearchButton, PaymentSentButton, CheckoutCancelButton,
    QuickSelectButton, RegistrationCancelButton, ElectronicsButton }

NoMessage == Msg("", <<>>)

\* --------------------------------------------------------------- responses
Response(text, actions) == [text |-> text, actions |-> actions]
NoResponse == Response("", <<>>)

WelcomeResponse ==
  Response("Welcome to WhatsApp Marketplace!",
           <<"Search Products", "My Orders", "Premium">>)
HelpResponse ==
  Response("WhatsApp Marketplace Help",
           <<"Search Example", "My Orders", "Contact Support">>)
CancelResponse ==
  Response("Search cancelled. What would you like to do now?",
           <<"Search Again", "My Orders", "Help">>)
RatingPrompt ==
  Response("Please rate your experience with the seller from 1 to 5 stars.",
           <<"1 star", "2 stars", "3 stars", "4 stars", "5 stars">>)
GenericMenu ==
  Response("I'm not sure what you're looking for. How can I help you today?",
           <<"Search Products", "My Orders", "Help">>)
SearchTrouble ==
  Response("I'm having trouble searching for products right now.",
           <<"Try Again", "Help">>)

\* Outcomes of the marketplace store calls made by one generateResponse call.
StoreOutcomes == {"found", "missing", "error"}

NotFoundResponse ==
  Response("Sorry, I couldn't find that product. It may have been sold or removed.",
           <<"Back to Search", "Help">>)

\* A generator without its catch blocks and without the default branch of
\* the switch: whatever is not a successful lookup leaves no usable response.
generateResponseWithoutCatch(responseType, outcome) ==
  IF outcome = "found" /\ responseType # "unknown_type"
  THEN Response("Here it is", <<"Back to Search", "Help">>)
  ELSE Response("", <<>>)

\* Response generator, generateResponse and the generate*Response functions.
generateResponse(responseType, outcome) ==
  CASE responseType = "search_results" ->
         CASE outcome = "found" ->
                Response("Here are the products",
                         <<"1. title", "2. title", "3. title", "Refine Search">>)
           [] outcome = "missing" ->
                Response("Sorry, I couldn't find any products matching your search",
                         <<"New Search", "Browse Categories">>)
           [] OTHER ->
                Response("I'm having trouble searching for products right now. Please try again later.",
                         <<"Try Again", "Help">>)
    [] responseType = "product_view" ->
         CASE outcome = "found" ->
                Response("What would you like to do with this product?",
                         <<"Buy Now", "Contact Seller", "Back to Search">>)
           [] outcome = "missing" -> NotFoundResponse
           [] OTHER ->
                Response("I'm having trouble retrieving product details right now. Please try again later.",
                         <<"Back to Search", "Help">>)
    [] responseType = "checkout" ->
         CASE outcome = "found" ->
                Response("Checkout", <<"Payment Sent", "Cancel">>)
           [] outcome = "missing" -> NotFoundResponse
           [] OTHER ->
                Response("I'm having trouble processing your checkout right now. Please try again later.",
                         <<"Back to Product", "Help">>)
    [] responseType = "contact_seller" ->
         CASE outcome = "found" ->
                Response("Seller Contact", <<"Chat with Seller", "Back to Product">>)
           [] outcome = "missing" -> NotFoundResponse
           [] OTHER ->
                Response("I'm having trouble retrieving the seller's contact information right now. Please try again later.",
                         <<"Back to Product", "Help">>)
    [] responseType = "payment_confirmation" ->
         CASE outcome = "found" ->
                Response("Payment Confirmed", <<"Track Order", "Shop More">>)
           [] outcome = "missing" -> NotFoundResponse
           [] OTHER ->
                Response("I'm having trouble confirming your payment right now. Please try again later or contact support.",
                         <<"Contact Support", "Back to Search">>)
    [] responseType = "rating_submission" ->
         CASE outcome = "found" ->
                Response("Thank you for your rating", <<"Shop More", "My Orders">>)
           [] outcome = "missing" -> NotFoundResponse
           [] OTHER ->
                Response("I'm having trouble submitting your rating right now. Please try again later.",
                         <<"Try Again", "Back to Search">>)
    [] OTHER ->
         Response("I'm not sure how to respond to that. How can I help you today?",
                  <<"Search Products", "Help">>)

\* ---------------------------------------------------------- session stores
AGENT_STATES == {"initial", "searching", "viewing_product", "checkout", "rating", "help"}

\* The session getUserSession creates for a user it has not seen.
NewSession ==
  [state |-> "initial", context |-> EmptyContext, history |-> <<>>,
   lastMessage |-> NoMessage]

\* A store that keeps every session under one key (a variant of SessionKey
\* that session isolation has to tell apart from it).
SessionKeyShared(userId) == "u1"

\* The key under which a user's session is kept in the Map.
SessionKey(userId) == userId

\* getUserSession: the store after the get-or-create.
getUserSession(store, userId) ==
  IF SessionKey(userId) \in DOMAIN store THEN store
  ELSE (SessionKey(userId) :> NewSession) @@ store

\* ------------------------------------------------- rule-based processMessage
\* extractEntities is an async function and processMessage reads intent and
\* entities off its return value without awaiting it: the value is a pending
\* Promise, which has neither property, so both locals are undefined.
Destructured(resolved) ==
  [intent |-> "undefined", entities |-> NoEntities, defined |-> FALSE]

\* { ...session.context, ...entities }: spreading undefined adds no key.
MergeContext(context, entities) ==
  [key \in ContextKeys |-> IF entities[key] # Absent THEN entities[key] ELSE context[key]]

\* The result of the part of a turn that runs before its first store call:
\* the session as changed so far, and either the finished response (call =
\* "none") or the generateResponse call the turn now waits for, with the
\* state processMessage assigns after that call returns ("" for none).
Finished(session, response) ==
  [session |-> session, call |-> "none", response |-> response, thenState |-> ""]
Calls(session, responseType, thenState) ==
  [session |-> session, call |-> responseType, response |-> NoResponse,
   thenState |-> thenState]

\* a || b of JavaScript on the values of one key, where a is
\* `extracted.entities.key || null` and b is `entities.key`.
OrElse(a, b) == IF Truthy(a) THEN a ELSE IF b = Absent THEN Undefined ELSE b

\* handleSearchIntent, lines 285-329, given what processSearchQuery read off
\* extractEntities.  It reads `.query` of `extracted.entities`; when that is
\* undefined the read throws and the catch of handleSearchIntent answers,
\* the context untouched.
SearchWith(session, entities, extracted) ==
  IF ~extracted.defined THEN Finished(session, SearchTrouble)
  ELSE Calls([session EXCEPT !.context =
                [@ EXCEPT !.query = OrElse(IF Truthy(extracted.entities.query)
                                           THEN extracted.entities.query
                                           ELSE StrV(session.lastMessage.toks),
                                           entities.query),
                          !.category = OrElse(extracted.entities.category, entities.category),
                          !.location = OrElse(extracted.entities.location, entities.location),
                          !.minPrice = OrElse(extracted.entities.minPrice, entities.minPrice),
                          !.maxPrice = OrElse(extracted.entities.maxPrice, entities.maxPrice)]],
             "search_results", "")

\* processSearchQuery calls extractEntities without await as well.
handleSearchIntent(session, entities) ==
  SearchWith(session, entities, Destructured(extractEntities(session.lastMessage.toks)))

\* A first turn that moves to the help state (a variant of InitialTurn that
\* the unreachability of RATING and HELP has to tell apart from it).
InitialTurnToHelp(session, d) ==
  IF d.intent = "search"
  THEN handleSearchIntent([session EXCEPT !.state = "searching"], d.entities)
  ELSE Finished([session EXCEPT !.state = "help"], HelpResponse)

\* case AGENT_STATES.INITIAL
InitialTurn(session, d) ==
  IF d.intent = "search"
  THEN handleSearchIntent([session EXCEPT !.state = "searching"], d.entities)
  ELSE IF d.intent = "help" THEN Finished(session, HelpResponse)
  ELSE Finished(session, WelcomeResponse)

\* case AGENT_STATES.SEARCHING
SearchingTurn(session, d) ==
  IF d.intent = "select_product" /\ Truthy(d.entities.productId)
  THEN Calls([session EXCEPT !.state = "viewing_product",
                             !.context.currentProductId = d.entities.productId],
             "product_view", "")
  ELSE IF d.intent = "refine_search" THEN handleSearchIntent(session, d.entities)
  ELSE IF d.intent = "cancel"
  THEN Finished([session EXCEPT !.state = "initial", !.context = EmptyContext],
                CancelResponse)
  ELSE handleSearchIntent(session, d.entities)

\* A product view that any other message leaves for the search (a variant of
\* ViewingTurn that the closure of the two purchase states has to tell apart
\* from it).
ViewingTurnWithExit(session, d) ==
  IF d.intent \in {"buy", "checkout"}
  THEN Calls([session EXCEPT !.state = "checkout"], "checkout", "")
  ELSE handleSearchIntent([session EXCEPT !.state = "searching"], session.context)

\* case AGENT_STATES.VIEWING_PRODUCT
ViewingTurn(session, d) ==
  IF d.intent \in {"buy", "checkout"}
  THEN Calls([session EXCEPT !.state = "checkout"], "checkout", "")
  ELSE IF d.intent = "contact_seller" THEN Calls(session, "contact_seller", "")
  ELSE IF d.intent = "back_to_search"
  THEN handleSearchIntent([session EXCEPT !.state = "searching"], session.context)
  ELSE Calls(session, "product_view", "")

\* case AGENT_STATES.CHECKOUT
CheckoutTurn(session, d) ==
  IF d.intent = "confirm_payment" THEN Calls(session, "payment_confirmation", "")
  ELSE IF d.intent = "cancel"
  THEN Calls([session EXCEPT !.state = "viewing_product"], "product_view", "")
  ELSE Calls(session, "checkout", "")

\* A test that accepts every input (a variant of RatingAccepted that the
\* re-prompt rule has to tell apart from it).
RatingAlwaysAccepted(d) == TRUE

\* The test of case AGENT_STATES.RATING.
RatingAccepted(d) == d.intent = "submit_rating" /\ Truthy(d.entities.rating)

\* case AGENT_STATES.RATING: the state is reset after the awaited response.
RatingTurn(session, d) ==
  IF RatingAccepted(d) THEN Calls(session, "rating_submission", "initial")
  ELSE Finished(session, RatingPrompt)

\* A default case that keeps the state (a variant of UnknownStateTurn that
\* the reset rule has to tell apart from it).
UnknownStateKept(session, d) == Finished(session, GenericMenu)

\* default: of the switch
UnknownStateTurn(session, d) ==
  Finished([session EXCEPT !.state = "initial"], GenericMenu)

\* switch (session.state)
StateSwitch(session, d) ==
  CASE session.state = "initial"         -> InitialTurn(session, d)
    [] session.state = "searching"       -> SearchingTurn(session, d)
    [] session.state = "viewing_product" -> ViewingTurn(session, d)
    [] session.state = "checkout"        -> CheckoutTurn(session, d)
    [] session.state = "rating"          -> RatingTurn(session, d)
    [] OTHER                             -> UnknownStateTurn(session, d)

\* Lines 116-128, then the switch.
TurnWith(session, msg, d) ==
  StateSwitch([session EXCEPT !.lastMessage = msg,
                              !.context = MergeContext(@, d.entities)], d)

\* processMessage from the session lookup to the first store call or, when
\* the turn makes none, to the response.
RuleTurn(session, msg) == TurnWith(session, msg, Destructured(extractEntities(msg.toks)))

\* session.history.push({ role: 'assistant', content: response.text })
PushAssistant(session, response) ==
  [session EXCEPT !.history = Append(@, [role |-> "assistant", content |-> response.text])]

\* ------------------------------------------------- AI-backed processMessage
\* The session the OpenRouter agent creates for a user it has not seen.
NewAiSession ==
  [currentState |-> "initial", conversationHistory |-> <<>>,
   lastMessage |-> NoMessage, activeProductId |-> Absent]

getAiSession(store, userId) ==
  IF SessionKey(userId) \in DOMAIN store THEN store
  ELSE (SessionKey(userId) :> NewAiSession) @@ store

\* Length the conversation history is cut back to.
HistoryCap == 20

LastN(seq, n) == IF Len(seq) > n THEN SubSeq(seq, Len(seq) - n + 1, Len(seq)) ELSE seq

\* What the completion call can come back with: an error, free text, the
\* JSON text "null", or a JSON object with an intent (or none) and with no
\* entities, an empty entities object, or entities holding a product id.
AiReplies ==
  {[kind |-> "error", intent |-> "undefined", entities |-> "absent"],
   [kind |-> "text",  intent |-> "undefined", entities |-> "absent"],
   [kind |-> "null",  intent |-> "undefined", entities |-> "absent"],
   [kind |-> "json",  intent |-> "undefined", entities |-> "empty"],
   [kind |-> "json",  intent |-> "search", entities |-> "empty"],
   [kind |-> "json",  intent |-> "select_product", entities |-> "product"],
   [kind |-> "json",  intent |-> "checkout", entities |-> "empty"],
   [kind |-> "json",  intent |-> "contact_seller", entities |-> "product"],
   [kind |-> "json",  intent |-> "cancel", entities |-> "absent"]}

AiReplyText == "AI reply"
AiProductId == StrV(<<Num(3)>>)

mapIntentToState(intent) ==
  CASE intent = "search"         -> "searching"
    [] intent = "select_product" -> "viewing_product"
    [] intent = "checkout"       -> "checkout"
    [] intent = "submit_rating"  -> "rating"
    [] intent = "help"           -> "help"
    [] intent = "contact_seller" -> "contacting"
    [] intent = "track_order"    -> "tracking"
    [] OTHER                     -> "initial"

\* The object processMessage returns: the properties it has (fields) and
\* their values, "" and <<>> standing for a text and actions it lacks.
AiResponse(fields, text, state, intent, entities) ==
  [fields |-> fields, text |-> text, actions |-> <<>>, state |-> state,
   intent |-> intent, entities |-> entities]

\* The properties of an object built by spreading the Promise of the
\* un-awaited generateResponse: the three written after the spread.
SpreadFields == {"state", "intent", "entities"}

\* The entities property of the object the reply parsed to.
ReplyEntities(reply) ==
  CASE reply.entities = "empty"   -> NoEntities
    [] reply.entities = "product" -> [NoEntities EXCEPT !.productId = AiProductId]
    [] OTHER                      -> Undefined

\* The completion call failed: it raised an error, or its text is no JSON
\* object (free text, or JSON that is no object).
AiCallFailed(reply) == reply.kind \in {"error", "text", "null"}

\* processMessage up to the completion call: lines 275-287.
AiBegin(session, msg) ==
  [session EXCEPT !.lastMessage = msg,
                  !.conversationHistory =
                     LastN(Append(@, [role |-> "user", content |-> msg.text]), HistoryCap)]

\* The catch of processMessage: generateResponse is async and is not
\* awaited, so the object spread into the fallback response is a Promise and
\* gives it no text; intent and entities are read off a Promise as well.
AiFallback(session) ==
  [session |-> session, response |-> AiResponse(SpreadFields, "", "initial", "undefined", Undefined)]

\* Lines 504-507: the state follows the intent alone.
StateForIntent(session, intent) ==
  IF intent # "undefined"
  THEN [session EXCEPT !.currentState = mapIntentToState(intent)]
  ELSE session

\* Lines 509-535, the state already set.
AgentResponseIn(session, reply) ==
  IF reply.intent = "search" /\ reply.entities \in {"absent", "empty"}
  THEN [session |-> session,
        response |-> AiResponse({"text", "state", "intent", "entities"}, AiReplyText,
                               session.currentState, reply.intent, NoEntities)]
  ELSE [session |-> IF reply.entities = "product"
                    THEN [session EXCEPT !.activeProductId = AiProductId]
                    ELSE session,
        response |-> AiResponse(SpreadFields, "", session.currentState, reply.intent,
                               ReplyEntities(reply))]

\* processAgentResponse for an object the reply parsed to.
processAgentResponse(session, reply) ==
  AgentResponseIn(StateForIntent(session, reply.intent), reply)

\* Lines 313-317.
PushReply(session) ==
  [session EXCEPT !.conversationHistory =
     Append(@, [role |-> "assistant", content |-> AiReplyText])]

\* processMessage from the return of the completion call: lines 300-350.
AiContinue(session, reply) ==
  CASE reply.kind \in {"error", "null"} -> AiFallback(session)
    [] reply.kind = "text" ->
         [session |-> PushReply(session),
          response |-> AiResponse(SpreadFields, "", session.currentState, "undefined",
                                 Undefined)]
    [] OTHER -> processAgentResponse(PushReply(session), reply)

\* ------------------------------------------------------ group registration
registrationStates ==
  {"idle", "awaiting_group_name", "awaiting_invite_link", "awaiting_category"}

Null == "<null>"

\* The object getRegistrationSession and resetRegistrationSession create.
NewRegistration ==
  [state |-> "idle", groupName |-> Null, inviteCode |-> Null, category |-> Null]

\* registrationSessions: the Map (map: key -> object) and the objects it has
\* ever held (heap).  resetRegistrationSession puts a new object under the
\* key; a turn that fetched the old one before still holds the old one.
NoRegistrations == [map |-> <<>>, heap |-> <<>>]

Allocate(reg, userId) ==
  [map  |-> (SessionKey(userId) :> Len(reg.heap) + 1) @@ reg.map,
   heap |-> Append(reg.heap, NewRegistration)]

getRegistrationSession(reg, userId) ==
  IF SessionKey(userId) \in DOMAIN reg.map THEN reg ELSE Allocate(reg, userId)

resetRegistrationSession(reg, userId) == Allocate(reg, userId)

\* The object the Map holds for a user that has one.
RegistrationOf(reg, userId) == reg.heap[reg.map[SessionKey(userId)]]

\* A variant of extractInviteCode that keeps the host of the link in the
\* code (the happy path of the registration has to tell it apart).
extractInviteCodeWithHost(msg) ==
  IF \E i \in 1..Len(msg.toks) : msg.toks[i].k = "link"
  THEN "chat.whatsapp.com/" \o
       msg.toks[Min({i \in 1..Len(msg.toks) : msg.toks[i].k = "link"})].w
  ELSE Null

\* extractInviteCode: the token of a chat.whatsapp.com link anywhere in the
\* text, else the text itself when it is one word of 22 word characters.
InviteCodeLen == 22

extractInviteCode(msg) ==
  IF \E i \in 1..Len(msg.toks) : msg.toks[i].k = "link"
  THEN msg.toks[Min({i \in 1..Len(msg.toks) : msg.toks[i].k = "link"})].w
  ELSE IF Len(msg.toks) = 1 /\ msg.toks[1].k = "w" /\ Len(msg.toks[1].w) = InviteCodeLen
  THEN msg.toks[1].w
  ELSE Null

\* lowerMessage.includes('register group') || lowerMessage === 'register'
IsRegisterCommand(msg) ==
  \/ msg.toks = <<W("register")>>
  \/ \E i \in 1..(Len(msg.toks) - 1) :
       msg.toks[i] = W("register") /\ msg.toks[i + 1] = W("group")

\* A test for the text 'cancel' that looks at the text as typed (a variant
\* of IsCancelMessage that the cancel rule has to tell apart from it).
IsCancelMessageAsTyped(msg) == msg.toks = <<W("cancel")>>

\* lowerMessage === 'cancel', lowerMessage being the text in lower case
\* without the blanks around it.
IsCancelMessage(msg) ==
  Len(msg.toks) = 1 /\ msg.toks[1].k = "w" /\ Lower(msg.toks[1].w) = "cancel"

\* isGroupCommand, on the store after its get-or-create.
isGroupCommand(reg, msg, userId) ==
  RegistrationOf(reg, userId).state # "idle" \/ IsRegisterCommand(msg)

\* Lines 168-175: the category of a message.
\* A token with every character outside \w replaced by "_".
Sanitized(t) ==
  CASE t.k = "w"     -> Lower(t.w)
    [] t.k = "cmd"   -> "_" \o Lower(t.w)
    [] t.k = "num"   -> ToString(t.n)
    [] t.k = "id"    -> "_" \o ToString(t.n)
    [] t.k = "price" -> ToString(t.n) \o "_" \o Lower(t.w)
    [] t.k = "star"  -> "_"
    [] t.k = "link"  -> "chat_whatsapp_com_" \o t.w
    [] t.k = "ws"    -> ""

RECURSIVE SanitizedText(_)
SanitizedText(toks) ==
  IF toks = <<>> THEN ""
  ELSE IF Len(toks) = 1 THEN Sanitized(toks[1])
  ELSE IF toks[2].k = "ws"
  THEN Sanitized(toks[1]) \o "_" \o SanitizedText(SubSeq(toks, 3, Len(toks)))
  ELSE Sanitized(toks[1]) \o "_" \o SanitizedText(Tail(toks))

CategoryOfMessage(msg) ==
  IF Contains(msg.toks, {"electronics"}) THEN "electronics"
  ELSE IF Contains(msg.toks, {"fashion"}) THEN "fashion"
  ELSE IF \E i \in 1..(Len(msg.toks) - 1) :
            msg.toks[i] = W("real") /\ msg.toks[i + 1] = W("estate")
       THEN "real_estate"
  ELSE IF Contains(msg.toks, {"vehicles"}) THEN "vehicles"
  ELSE IF Contains(msg.toks, {"general"}) THEN "general"
  ELSE SanitizedText(msg.toks)

RegistrationCancelled ==
  Response("Group registration canceled. How else can I help you today?",
           <<"Search Products", "Register Group", "Help">>)
RegistrationStarted ==
  Response("Let's register your WhatsApp group for marketplace monitoring!",
           <<"Cancel">>)
AskInviteLink ==
  Response("Great! Now please send me the invite link for your group.", <<"Cancel">>)
InvalidInviteLink ==
  Response("That doesn't look like a valid WhatsApp group invite link.", <<"Cancel">>)
AlreadyRegistered ==
  Response("This group is already registered for marketplace monitoring!",
           <<"Search Products", "Help">>)
AskCategory ==
  Response("Perfect! Now please select a category for your marketplace group:",
           <<"Electronics", "Fashion", "Real Estate", "Vehicles", "General", "Cancel">>)
RegistrationSucceeded ==
  Response("Success! Your group has been registered.", <<"Search Products", "Help">>)
RegistrationFailed ==
  Response("Sorry, there was an error registering your group.",
           <<"Search Products", "Register Group", "Help">>)

\* The result of the part of processGroupCommand that runs before its first
\* query: the store as changed so far, and either the response (call =
\* "none"; NoResponse with answered = FALSE is the null of the default case)
\* or the query the turn now waits for, with the arguments it was given.
GroupFinished(reg, response) ==
  [reg |-> reg, call |-> "none", response |-> response, answered |-> TRUE,
   code |-> Null, name |-> Null, category |-> Null]
GroupUnanswered(reg) ==
  [reg |-> reg, call |-> "none", response |-> NoResponse, answered |-> FALSE,
   code |-> Null, name |-> Null, category |-> Null]
GroupCalls(reg, call, code, name, category) ==
  [reg |-> reg, call |-> call, response |-> NoResponse, answered |-> TRUE,
   code |-> code, name |-> name, category |-> category]

\* The store with the fields of one object changed.
WithObject(reg, oid, object) == [reg EXCEPT !.heap[oid] = object]

\* case AWAITING_INVITE_LINK, up to the query of isGroupRegistered (which
\* answers from monitoredGroups without a query when the group is in it).
InviteLinkTurn(reg, oid, userId, msg, monitored) ==
  IF extractInviteCode(msg) = Null THEN GroupFinished(reg, InvalidInviteLink)
  ELSE IF extractInviteCode(msg) \in monitored
  THEN GroupFinished(resetRegistrationSession(reg, userId), AlreadyRegistered)
  ELSE GroupCalls(reg, "lookup", extractInviteCode(msg), Null, Null)

\* processGroupCommand for the object oid the Map holds for the user.
GroupTurn(reg, oid, userId, msg, monitored) ==
  IF IsCancelMessage(msg) /\ reg.heap[oid].state # "idle"
  THEN GroupFinished(resetRegistrationSession(reg, userId), RegistrationCancelled)
  ELSE IF IsRegisterCommand(msg)
  THEN GroupFinished(WithObject(reg, oid, [reg.heap[oid] EXCEPT
                                             !.state = "awaiting_group_name"]),
                     RegistrationStarted)
  ELSE CASE reg.heap[oid].state = "awaiting_group_name" ->
              GroupFinished(WithObject(reg, oid, [reg.heap[oid] EXCEPT
                                                    !.groupName = msg.text,
                                                    !.state = "awaiting_invite_link"]),
                            AskInviteLink)
         [] reg.heap[oid].state = "awaiting_invite_link" ->
              InviteLinkTurn(reg, oid, userId, msg, monitored)
         [] reg.heap[oid].state = "awaiting_category" ->
              GroupCalls(reg, "register", reg.heap[oid].inviteCode,
                         reg.heap[oid].groupName, CategoryOfMessage(msg))
         [] OTHER -> GroupUnanswered(reg)

processGroupCommand(reg, userId, msg, monitored) ==
  GroupTurn(reg, reg.map[SessionKey(userId)], userId, msg, monitored)

\* The row registerGroup upserts under the id of an invite code.
GroupRow(name, category, adminPhone) ==
  [name |-> name, category |-> category, admin_phone |-> adminPhone]

\* A lookup that always asks the table (a variant of isGroupRegistered that
\* the round trip with registerGroup has to tell apart from it).
isGroupRegisteredByQuery(monitored, table, code, answers) ==
  answers /\ code \in DOMAIN table

\* isGroupRegistered as a whole: true at once for an id in monitoredGroups,
\* else what the select finds; false when the select fails (answers = FALSE).
isGroupRegistered(monitored, table, code, answers) ==
  code \in monitored \/ (answers /\ code \in DOMAIN table)

\* processGroupCommand from the return of isGroupRegistered: lines 141-164.
AfterLookup(reg, oid, userId, code, isRegistered) ==
  IF isRegistered
  THEN [reg |-> resetRegistrationSession(reg, userId), response |-> AlreadyRegistered]
  ELSE [reg |-> WithObject(reg, oid, [reg.heap[oid] EXCEPT
                                        !.inviteCode = code,
                                        !.state = "awaiting_category"]),
        response |-> AskCategory]

\* processGroupCommand from the return of registerGroup: lines 185-212.
AfterRegister(reg, userId, success) ==
  [reg |-> resetRegistrationSession(reg, userId),
   response |-> IF success THEN RegistrationSucceeded ELSE RegistrationFailed]

\* ----------------------------------------------------------------- webhook
\* processCommand: the tokens it routes to a handler.
CommandTokens == {"subscription", "subscribe", "boost", "fapshi"}
IsCommand(msg) == msg.toks # <<>> /\ msg.toks[1].k = "cmd"

\* text.slice(1).split(' ')[0].toLowerCase(): the text up to the first blank,
\* so a token followed by a line break is no command token ("" stands for
\* such a text).
CommandOf(msg) ==
  IF Len(msg.toks) > 1 /\ msg.toks[2].k = "ws" THEN "" ELSE Lower(msg.toks[1].w)

\* The handler the switch of processCommand calls, "none" from its default.
HandlerOf(msg) ==
  IF ~IsCommand(msg) THEN "none"
  ELSE CASE CommandOf(msg) \in {"subscription", "subscribe"} -> "subscription"
         [] CommandOf(msg) = "boost"  -> "boost"
         [] CommandOf(msg) = "fapshi" -> "fapshi"
         [] OTHER -> "none"

\* A dispatch that handles nothing (a variant of processCommand that the
\* command rules have to tell apart from it).
processCommandNever(msg) == FALSE

\* The value processCommand returns.  Every handler catches its own errors,
\* so a handler that fails still returns and the command counts as handled.
processCommand(msg) == HandlerOf(msg) # "none"

\* sendWhatsAppMessage: the body and the buttons of what is posted.
\* A delivery that makes a button of every action (a variant of
\* sendWhatsAppMessage that the truncation rule has to tell apart from it).
sendWhatsAppMessageUntruncated(turn, to, response) ==
  [turn |-> turn, to |-> to, body |-> response.text, buttons |-> response.actions]

NoTextBody == "Sorry, I couldn't generate a response."
ButtonLimit == 3
sendWhatsAppMessage(turn, to, response) ==
  [turn |-> turn, to |-> to,
   body |-> IF response.text = "" THEN NoTextBody ELSE response.text,
   buttons |-> SubSeq(response.actions, 1,
                      IF Len(response.actions) > ButtonLimit THEN ButtonLimit
                      ELSE Len(response.actions))]

\* ------------------------------------------------------------------- state
VARIABLES
  useOpenRouter,        \* USE_OPENROUTER
  inputs,               \* the text messages the environment sends
  userSessions,         \* the Map of the rule-based agent
  sessions,             \* the Map of the AI-backed agent
  registrationSessions, \* the Map of the registration flow, with its objects
  groups,               \* the groups table, by invite code
  monitoredGroups,      \* the Set of group-registration.js, by invite code
  turns,                \* the turns suspended at an awaited call, by arrival number
  arrived,              \* number of messages the webhook has received
  budget,               \* number of messages the environment still sends
  outbox,               \* the replies handed to sendWhatsAppMessage, in order
  last,                 \* the step taken last
  http                  \* the POST /webhook request being handled, if any

vars == <<useOpenRouter, inputs, userSessions, sessions, registrationSessions,
          groups, monitoredGroups, turns, arrived, budget, outbox, last, http>>

\* A deployment seen message by message: each message stands for a request
\* that carries it alone, and the request itself is left out.
NoRequest == [entry |-> <<>>, acknowledged |-> FALSE, next |-> 1, taken |-> <<>>]

NoStep ==
  [kind |-> "none", turn |-> 0, user |-> "", msg |-> NoMessage,
   before |-> NewSession, response |-> NoResponse, handler |-> "none", failed |-> FALSE,
   sent |-> ""]
Step(kind, turn, user, msg, before, response) ==
  [kind |-> kind, turn |-> turn, user |-> user, msg |-> msg,
   before |-> before, response |-> response, handler |-> "none", failed |-> FALSE,
   sent |-> ""]

\* The text a command handler passes to client.sendMessage.  A command
\* without arguments gets the handler's overview (showBoostingInfo,
\* showSubscriptionStatus, the usage line of handleFapshiCommands), each
\* text standing here by its first line; a handler that fails passes the
\* text of its catch block.
BoostingInfo == "*Boost Your Listings*"
BoostFailed == "Failed to process boost request. Please try again later."
FapshiUsage == "Usage: !fapshi <checkout|directpay> ..."
FapshiError == "Fapshi error: "
SubscriptionStatus == "*Subscription Status*"
SubscriptionFailed == "Failed to fetch subscription status. Please try again later."
HandlerText(handler, failed) ==
  CASE handler = "boost"        -> IF failed THEN BoostFailed ELSE BoostingInfo
    [] handler = "fapshi"       -> IF failed THEN FapshiError ELSE FapshiUsage
    [] handler = "subscription" -> IF failed THEN SubscriptionFailed ELSE SubscriptionStatus
    [] OTHER -> ""

\* mockClient.sendMessage of processMessage: it returns the text to the
\* handler, which drops it; nothing reaches the outbox.
mockSendMessage(to, text) == [text |-> text, actions |-> <<>>]

\* The step of a handled command: the handler called, whether it failed and
\* the text it passed to client.sendMessage.
CommandStep(turn, user, msg, handler, failed) ==
  [kind |-> "command", turn |-> turn, user |-> user, msg |-> msg,
   before |-> NewSession, response |-> NoResponse, handler |-> handler,
   failed |-> failed,
   sent |-> mockSendMessage(user, HandlerText(handler, failed)).text]

\* A turn suspended at an awaited call: the completion call (pc = "ai"), a
\* generateResponse call (pc = "store", with the response type and the state
\* assigned after it), or a query of the registration flow (pc = "lookup",
\* "register", with the object the turn holds and the arguments of the call).
Suspended(user, msg, pc, call, thenState, oid, code, name, category) ==
  [user |-> user, msg |-> msg, pc |-> pc, call |-> call, thenState |-> thenState,
   oid |-> oid, code |-> code, name |-> name, category |-> category]

\* The messages sent to a freshly started deployment.  The AI-backed agent
\* only stores and forwards the text, so few messages stand for all there.
BootInputs ==
  {m \in Corpus : m.text \in {"find products", "hi", "in douala", "under 5000 FCFA",
                              "!boost", "!foo", "!boost\nstatus", "register group",
                              "chat.whatsapp.com/abc"}}
AiInputs == {m \in Corpus : m.text \in {"find products", "!boost", "register group"}}

Init ==
  /\ useOpenRouter \in BOOLEAN
  /\ inputs = IF useOpenRouter THEN AiInputs ELSE BootInputs
  /\ userSessions = <<>>
  /\ sessions = <<>>
  /\ registrationSessions = NoRegistrations
  /\ groups = <<>>
  /\ monitoredGroups = {}
  /\ turns = <<>>
  /\ arrived = 0
  /\ budget = IF useOpenRouter THEN MaxAiTurns ELSE MaxTurns
  /\ outbox = <<>>
  /\ last = NoStep
  /\ http = NoRequest

\* A registration turn that also drops the conversations of its user (a
\* variant of WebhookGroup that the independence of the two state machines
\* has to tell apart from it).
WebhookGroupDroppingConversation(u, m) ==
  /\ budget > 0 /\ m \in inputs /\ m.type = "text"
  /\ \E reg \in {getRegistrationSession(registrationSessions, u)} :
     \E r \in {processGroupCommand(reg, u, m, monitoredGroups)} :
         /\ isGroupCommand(reg, m, u)
         /\ r.answered
         /\ registrationSessions' = r.reg
         /\ IF r.call = "none"
            THEN /\ outbox' = Append(outbox, sendWhatsAppMessage(arrived + 1, u, r.response))
                 /\ turns' = turns
            ELSE /\ outbox' = outbox
                 /\ turns' = (arrived + 1 :>
                               Suspended(u, m, r.call, "", "", reg.map[SessionKey(u)],
                                         r.code, r.name, r.category)) @@ turns
         /\ last' = Step("group", arrived + 1, u, m, NewSession, r.response)
  /\ userSessions' = [k \in DOMAIN userSessions \ {SessionKey(u)} |-> userSessions[k]]
  /\ sessions' = [k \in DOMAIN sessions \ {SessionKey(u)} |-> sessions[k]]
  /\ arrived' = arrived + 1
  /\ budget' = budget - 1
  /\ UNCHANGED <<useOpenRouter, inputs, groups, monitoredGroups>>

\* Lines 80-130: a text message passes isGroupCommand, which creates the
\* registration session of a user that has none; the title of a tapped
\* button is handed to processMessage at once.
PassesGroupCheck(u, m) ==
  IF m.type = "text"
  THEN \E reg \in {getRegistrationSession(registrationSessions, u)} :
           /\ ~isGroupCommand(reg, m, u)
           /\ registrationSessions' = reg
  ELSE registrationSessions' = registrationSessions

\* A text message of a user in the registration flow, or one that starts it:
\* processGroupCommand runs to its first query or, when it makes none, to the
\* end.  (isGroupCommand and processGroupCommand run back to back, so the
\* null of the default case, answered = FALSE, is never returned here.)
WebhookGroup(u, m) ==
  /\ budget > 0 /\ m \in inputs /\ m.type = "text"
  /\ \E reg \in {getRegistrationSession(registrationSessions, u)} :
     \E r \in {processGroupCommand(reg, u, m, monitoredGroups)} :
         /\ isGroupCommand(reg, m, u)
         /\ r.answered
         /\ registrationSessions' = r.reg
         /\ IF r.call = "none"
            THEN /\ outbox' = Append(outbox, sendWhatsAppMessage(arrived + 1, u, r.response))
                 /\ turns' = turns
            ELSE /\ outbox' = outbox
                 /\ turns' = (arrived + 1 :>
                               Suspended(u, m, r.call, "", "", reg.map[SessionKey(u)],
                                         r.code, r.name, r.category)) @@ turns
         /\ last' = Step("group", arrived + 1, u, m, NewSession, r.response)
  /\ arrived' = arrived + 1
  /\ budget' = budget - 1
  /\ UNCHANGED <<useOpenRouter, inputs, userSessions, sessions, groups, monitoredGroups>>

\* A '!' command that processCommand handles, its handler failing or not:
\* processMessage returns the empty response before it looks up a session.
WebhookCommand(u, m, failed) ==
  /\ budget > 0 /\ m \in inputs
  /\ PassesGroupCheck(u, m)
  /\ processCommand(m)
  /\ outbox' = Append(outbox, sendWhatsAppMessage(arrived + 1, u, NoResponse))
  /\ arrived' = arrived + 1
  /\ budget' = budget - 1
  /\ last' = CommandStep(arrived + 1, u, m, HandlerOf(m), failed)
  /\ UNCHANGED <<useOpenRouter, inputs, userSessions, sessions, groups,
                 monitoredGroups, turns>>

\* A message for the rule-based agent: the turn runs to its first store call
\* or, when it makes none, to the end.
WebhookRule(u, m) ==
  /\ budget > 0 /\ m \in inputs
  /\ ~processCommand(m) /\ ~useOpenRouter
  /\ PassesGroupCheck(u, m)
  /\ \E store \in {getUserSession(userSessions, u)} :
     \E before \in {store[SessionKey(u)]} :
     \E r \in {RuleTurn(before, m)} :
         /\ IF r.call = "none"
            THEN /\ userSessions' =
                      [store EXCEPT ![SessionKey(u)] = PushAssistant(r.session, r.response)]
                 /\ outbox' = Append(outbox, sendWhatsAppMessage(arrived + 1, u, r.response))
                 /\ turns' = turns
            ELSE /\ userSessions' = [store EXCEPT ![SessionKey(u)] = r.session]
                 /\ outbox' = outbox
                 /\ turns' = (arrived + 1 :>
                               Suspended(u, m, "store", r.call, r.thenState, 0,
                                         Null, Null, Null)) @@ turns
         /\ last' = Step("rule", arrived + 1, u, m, before, r.response)
  /\ arrived' = arrived + 1
  /\ budget' = budget - 1
  /\ UNCHANGED <<useOpenRouter, inputs, sessions, groups, monitoredGroups>>

\* A message for the AI-backed agent: the turn runs to the completion call.
WebhookAI(u, m) ==
  /\ budget > 0 /\ m \in inputs
  /\ ~processCommand(m) /\ useOpenRouter
  /\ PassesGroupCheck(u, m)
  /\ \E store \in {getAiSession(sessions, u)} :
     \E before \in {store[SessionKey(u)]} :
         /\ sessions' = [store EXCEPT ![SessionKey(u)] = AiBegin(before, m)]
         /\ last' = Step("ai", arrived + 1, u, m, before, NoResponse)
  /\ turns' = (arrived + 1 :>
                Suspended(u, m, "ai", "", "", 0, Null, Null, Null)) @@ turns
  /\ arrived' = arrived + 1
  /\ budget' = budget - 1
  /\ UNCHANGED <<useOpenRouter, inputs, userSessions, groups, monitoredGroups, outbox>>

\* What a query can come back with, given the table: a generateResponse call
\* finds its rows, misses them or fails; isGroupRegistered finds the row of
\* the code exactly when the table has it, or fails; the upsert of
\* registerGroup returns the row or fails.
CanReturn(turn, outcome, table) ==
  CASE turn.pc = "store"    -> TRUE
    [] turn.pc = "lookup"   ->
         outcome \in {"error", IF turn.code \in DOMAIN table THEN "found" ELSE "missing"}
    [] turn.pc = "register" -> outcome \in {"found", "error"}
    [] OTHER                -> FALSE

\* The awaited query of a suspended turn returns and the turn runs to its end.
StoreReturns(t, outcome) ==
  /\ t \in DOMAIN turns /\ CanReturn(turns[t], outcome, groups)
  /\ \E u \in {turns[t].user} :
     IF turns[t].pc = "store"
     THEN \E before \in {userSessions[SessionKey(u)]} :
          \E response \in {generateResponse(turns[t].call, outcome)} :
          \E s1 \in {IF turns[t].thenState = "" THEN before
                      ELSE [before EXCEPT !.state = turns[t].thenState]} :
              /\ userSessions' =
                   [userSessions EXCEPT ![SessionKey(u)] = PushAssistant(s1, response)]
              /\ outbox' = Append(outbox, sendWhatsAppMessage(t, u, response))
              /\ last' = Step("resume", t, u, turns[t].msg, before, response)
              /\ UNCHANGED <<registrationSessions, groups, monitoredGroups>>
     ELSE \E r \in {IF turns[t].pc = "lookup"
                     THEN AfterLookup(registrationSessions, turns[t].oid, u,
                                      turns[t].code, outcome = "found")
                     ELSE AfterRegister(registrationSessions, u, outcome = "found")} :
              /\ registrationSessions' = r.reg
              /\ groups' = IF turns[t].pc = "register" /\ outcome = "found"
                           THEN (turns[t].code :>
                                   GroupRow(turns[t].name, turns[t].category, u)) @@ groups
                           ELSE groups
              /\ monitoredGroups' = IF outcome = "found"
                                    THEN monitoredGroups \cup {turns[t].code}
                                    ELSE monitoredGroups
              /\ outbox' = Append(outbox, sendWhatsAppMessage(t, u, r.response))
              /\ last' = Step("group_resume", t, u, turns[t].msg, NewSession, r.response)
              /\ UNCHANGED userSessions
  /\ turns' = [x \in DOMAIN turns \ {t} |-> turns[x]]
  /\ UNCHANGED <<useOpenRouter, inputs, sessions, arrived, budget>>

\* The completion call of a suspended turn returns.
AiReturns(t, reply) ==
  /\ t \in DOMAIN turns /\ turns[t].pc = "ai"
  /\ \E u \in {turns[t].user} :
     \E before \in {sessions[SessionKey(u)]} :
     \E r \in {AiContinue(before, reply)} :
         /\ sessions' = [sessions EXCEPT ![SessionKey(u)] = r.session]
         /\ outbox' = Append(outbox, sendWhatsAppMessage(t, u, r.response))
         /\ last' = [Step("ai_reply", t, u, turns[t].msg, before, r.response)
                        EXCEPT !.failed = AiCallFailed(reply)]
  /\ turns' = [x \in DOMAIN turns \ {t} |-> turns[x]]
  /\ UNCHANGED <<useOpenRouter, inputs, userSessions, registrationSessions, groups,
                 monitoredGroups, arrived, budget>>

Next ==
  \/ \E u \in Users, m \in Corpus : WebhookGroup(u, m) /\ UNCHANGED http
  \/ \E u \in Users, m \in Corpus, failed \in BOOLEAN :
       WebhookCommand(u, m, failed) /\ UNCHANGED http
  \/ \E u \in Users, m \in Corpus : WebhookRule(u, m) /\ UNCHANGED http
  \/ \E u \in Users, m \in Corpus : WebhookAI(u, m) /\ UNCHANGED http
  \/ \E t \in 1..arrived, outcome \in StoreOutcomes :
       StoreReturns(t, outcome) /\ UNCHANGED http
  \/ \E t \in 1..arrived, reply \in AiReplies : AiReturns(t, reply) /\ UNCHANGED http

Spec == Init /\ [][Next]_vars

\* ----------------------------------------------- a deployment with a session
\* getUserSession is exported and hands out the session object itself, so a
\* stored session can hold any state and context; processMessage is checked
\* from each of them.  "contacting" stands for a value outside AGENT_STATES.
StoredStates == AGENT_STATES \cup {"contacting"}
StoredContexts ==
  {EmptyContext,
   [EmptyContext EXCEPT !.location = StrV(<<W("douala")>>),
                        !.query = StrV(<<W("products")>>),
                        !.currentProductId = StrV(<<Num(3)>>)]}
StoredSessions ==
  {[state |-> st, context |-> cx, history |-> <<>>, lastMessage |-> NoMessage] :
     st \in StoredStates, cx \in StoredContexts}

InitStored ==
  /\ useOpenRouter \in BOOLEAN
  /\ inputs = IF useOpenRouter THEN AiInputs ELSE Corpus
  /\ \E stored \in StoredSessions : userSessions = (SessionKey("u1") :> stored)
  /\ sessions = <<>>
  /\ registrationSessions = NoRegistrations
  /\ groups = <<>>
  /\ monitoredGroups = {}
  /\ turns = <<>>
  /\ arrived = 0
  /\ budget = MaxStoredTurns
  /\ outbox = <<>>
  /\ last = NoStep
  /\ http = NoRequest

SpecStored == InitStored /\ [][Next]_vars

\* ------------------------------------------ a deployment registering groups
\* The messages of a registration, and a command beside them; long enough
\* for a registration to run from its first message to the stored row.  The
\* registration flow runs ahead of both agents and is the same under either;
\* with the AI-backed agent the run is kept as short as in Spec.
MaxRegistrationTurns == 4
RegistrationInputs ==
  {m \in Corpus : m.text \in {"register group", "My Group", "chat.whatsapp.com/ABC123",
                              "electronics", "!boost", " Cancel "}}

InitRegistration ==
  /\ useOpenRouter \in BOOLEAN
  /\ inputs = RegistrationInputs
  /\ userSessions = <<>>
  /\ sessions = <<>>
  /\ registrationSessions = NoRegistrations
  /\ groups = <<>>
  /\ monitoredGroups = {}
  /\ turns = <<>>
  /\ arrived = 0
  /\ budget = IF useOpenRouter THEN MaxAiTurns ELSE MaxRegistrationTurns
  /\ outbox = <<>>
  /\ last = NoStep
  /\ http = NoRequest

SpecRegistration == InitRegistration /\ [][Next]_vars

\* ----------------------------------- a deployment with a registered group
\* The groups table has a row already.  loadMonitoredGroups, run when the
\* module is loaded, has put its id in monitoredGroups, or has failed (it
\* only logs the error) and left the set empty.
MaxRegisteredTurns == 3
StoredGroups == ("abc" :> GroupRow("Old Group", "general", "u2"))
RegisteredInputs ==
  {m \in Corpus : m.text \in {"register group", "My Group", "chat.whatsapp.com/abc",
                              "chat.whatsapp.com/ABC123", "!boost"}}

InitRegistered ==
  /\ useOpenRouter \in BOOLEAN
  /\ inputs = RegisteredInputs
  /\ userSessions = <<>>
  /\ sessions = <<>>
  /\ registrationSessions = NoRegistrations
  /\ groups = StoredGroups
  /\ monitoredGroups \in {{}, DOMAIN StoredGroups}
  /\ turns = <<>>
  /\ arrived = 0
  /\ budget = IF useOpenRouter THEN MaxAiTurns ELSE MaxRegisteredTurns
  /\ outbox = <<>>
  /\ last = NoStep
  /\ http = NoRequest

SpecRegistered == InitRegistered /\ [][Next]_vars

\* ------------------------------------------------------------- properties
\* What the step taken last was about.
LastSession == userSessions[SessionKey(last.user)]
LastExtracted == extractEntities(last.msg.toks)
LastIsRuleTurn(state) == last.kind = "rule" /\ last.before.state = state

\* The session store a suspended turn, or a step, works on.
StoreOfTurn(pc) ==
  CASE pc = "ai" -> "sessions"
    [] pc = "store" -> "userSessions"
    [] OTHER -> "registrationSessions"
StoreOfStep(kind) ==
  CASE kind \in {"ai", "ai_reply"} -> "sessions"
    [] kind \in {"rule", "resume"} -> "userSessions"
    [] kind \in {"group", "group_resume"} -> "registrationSessions"
    [] OTHER -> "none"

\* C1: the turns of one user never interleave: when a message has just begun
\* its turn on a session store, no earlier turn of the same user on that
\* store is still waiting for its awaited call.
C1_TurnsOfOneUserDoNotInterleave ==
  last.kind \in {"ai", "rule", "group"} =>
    \A t \in DOMAIN turns :
      (turns[t].user = last.user /\ StoreOfTurn(turns[t].pc) = StoreOfStep(last.kind))
        => t = last.turn

\* The sessions kept for a user in the three stores.
SessionsOf(v) ==
  [rule |-> {userSessions[k] : k \in DOMAIN userSessions \cap {v}},
   ai   |-> {sessions[k] : k \in DOMAIN sessions \cap {v}},
   reg  |-> {registrationSessions.heap[registrationSessions.map[k]] :
               k \in DOMAIN registrationSessions.map \cap {v}}]

\* C2: session isolation: a step changes the sessions of no user but the one
\* whose turn it is, and the session a conversational turn works on is the
\* one kept for that user (a new one when none is kept).
C2_SessionIsolation ==
  [][/\ \A v \in Users : SessionsOf(v)' # SessionsOf(v) => last'.user = v
     /\ last'.kind \in {"rule", "resume"} =>
          last'.before \in SessionsOf(last'.user).rule \cup {NewSession}
     /\ last'.kind \in {"ai", "ai_reply"} =>
          last'.before \in SessionsOf(last'.user).ai \cup {NewAiSession}]_vars

\* Two users hold sessions, a turn of one has just answered while a turn of
\* the other is still waiting, and the two sessions differ.
C2_Witness ==
  /\ last.kind = "ai_reply"
  /\ \E t \in DOMAIN turns : turns[t].pc = "ai" /\ turns[t].user # last.user
  /\ \A v \in Users : SessionsOf(v).ai # {}
  /\ \E v \in Users : SessionsOf(v).ai # SessionsOf(last.user).ai

\* C3: every conversational session, rule-based or AI-backed, is in one of
\* the six states of AGENT_STATES.
C3_StateInEnum ==
  /\ \A k \in DOMAIN userSessions : userSessions[k].state \in AGENT_STATES
  /\ \A k \in DOMAIN sessions : sessions[k].currentState \in AGENT_STATES

\* C4: from INITIAL, a message whose extracted intent is search moves the
\* session to SEARCHING; any other leaves it in INITIAL, help answered with
\* the help text and the rest with the welcome menu.
C4_InitialTransitions ==
  LastIsRuleTurn("initial") =>
    IF LastExtracted.intent = "search" THEN LastSession.state = "searching"
    ELSE /\ LastSession.state = "initial"
         /\ last.response = IF LastExtracted.intent = "help" THEN HelpResponse
                            ELSE WelcomeResponse

LastRatingValid ==
  /\ LastExtracted.intent = "submit_rating"
  /\ LastExtracted.entities.rating \in {NumV(n) : n \in 1..5}

\* C8: a turn from RATING ends in INITIAL only when the message is a
\* submit_rating with a rating in 1..5; any other message is answered with
\* the prompt for 1 to 5 stars and leaves the session in RATING.
C8_RatingOnlyOnValidRating ==
  (last.kind \in {"rule", "resume"} /\ last.before.state = "rating") =>
    /\ LastSession.state = "initial" => LastRatingValid
    /\ ~LastRatingValid =>
         /\ LastSession.state = "rating"
         /\ last.kind = "rule" /\ last.response = RatingPrompt
         /\ outbox[Len(outbox)].body = RatingPrompt.text

\* A session in RATING was sent "9 stars" and was asked again.
C8_Witness ==
  /\ LastIsRuleTurn("rating")
  /\ last.msg.text = "9 stars"
  /\ LastExtracted.intent = "submit_rating" /\ ~LastRatingValid
  /\ LastSession.state = "rating"
  /\ outbox # <<>> /\ outbox[Len(outbox)].body = RatingPrompt.text

\* The states with a row in the transition table.
TableStates == {"initial", "searching", "viewing_product", "checkout", "rating"}

\* C9: a turn of a session whose state has no row in the transition table
\* (HELP or an unknown value) sets the state to INITIAL and answers with the
\* generic menu, whatever the message.
C9_UnknownStateResets ==
  (last.kind = "rule" /\ last.before.state \notin TableStates) =>
    /\ LastSession.state = "initial"
    /\ last.response = GenericMenu
    /\ outbox[Len(outbox)] = sendWhatsAppMessage(last.turn, last.user, GenericMenu)

\* A session in a state outside AGENT_STATES has just been reset.
C9_Witness ==
  /\ last.kind = "rule" /\ last.before.state = "contacting"
  /\ LastSession.state = "initial"
  /\ outbox # <<>> /\ outbox[Len(outbox)].body = GenericMenu.text

\* C10: after a turn, a context key the message carried holds the extracted
\* value and every other key holds what it held before the turn; only
\* cancel from SEARCHING removes keys.
C10_ContextCarryOver ==
  (last.kind = "rule" /\ ~(last.before.state = "searching"
                           /\ LastExtracted.intent = "cancel")) =>
    \A key \in EntityKeys :
      LastSession.context[key] =
        IF LastExtracted.entities[key] # Absent THEN LastExtracted.entities[key]
        ELSE last.before.context[key]

\* C11: the active product id of a session is written only by a turn whose
\* intent is select_product with a product id, and no other turn changes or
\* clears it, cancel from SEARCHING excepted; on both paths.
C11_ActiveProductOnlyOnSelect ==
  /\ (last.kind \in {"rule", "resume"}
      /\ LastSession.context.currentProductId # last.before.context.currentProductId)
       => \/ /\ LastExtracted.intent = "select_product"
             /\ Truthy(LastExtracted.entities.productId)
          \/ last.before.state = "searching" /\ LastExtracted.intent = "cancel"
  /\ (last.kind = "ai_reply"
      /\ sessions[SessionKey(last.user)].activeProductId # last.before.activeProductId)
       => last.response.intent = "select_product"

\* The conversational session stores.
Conversations == <<userSessions, sessions>>

\* C12 as stated: a step of the webhook for a message that starts with '!'
\* creates and changes no conversational session, whatever its token.
C12_PrefixedMessageKeepsSessions ==
  [][(arrived' = arrived + 1 /\ IsCommand(last'.msg))
       => Conversations' = Conversations]_vars

\* C12, amended: a message that starts with '!' and whose text up to the
\* first blank is, in lower case, subscription, subscribe, boost or fapshi
\* creates and changes no conversational session, its handler failing or not.
C12_HandledCommandKeepsSessions ==
  [][(/\ arrived' = arrived + 1
      /\ IsCommand(last'.msg)
      /\ CommandOf(last'.msg) \in {"subscription", "subscribe", "boost", "fapshi"})
       => Conversations' = Conversations]_vars

\* A user with a session has sent a command whose handler failed.
C12_Witness ==
  /\ last.kind = "command" /\ last.failed
  /\ last.user \in DOMAIN userSessions
  /\ userSessions[last.user].history # <<>>

\* The handler the routing contract names for a token, "none" for any other.
HandlerNamed(token) ==
  CASE token \in {"subscription", "subscribe"} -> "subscription"
    [] token = "boost"  -> "boost"
    [] token = "fapshi" -> "fapshi"
    [] OTHER -> "none"

\* C13: a message with the prefix is dispatched on its first
\* whitespace-delimited token, in any letter case: subscription, subscribe,
\* boost and fapshi call their one handler and count as handled; any other
\* token calls no handler and the text goes to the conversational pipeline.
C13_DispatchOnFirstToken ==
  (last.kind \in {"command", "rule", "ai"} /\ IsCommand(last.msg)) =>
    IF HandlerNamed(Lower(last.msg.toks[1].w)) # "none"
    THEN last.kind = "command" /\ last.handler = HandlerNamed(Lower(last.msg.toks[1].w))
    ELSE last.kind \in {"rule", "ai"} /\ last.handler = "none"

\* C14: when the completion call fails (an error, or output that is no JSON
\* object) the turn still returns, and what it returns has the fields text,
\* actions, state, intent and entities, with the intent and the entities the
\* extractor finds in the user's message and the state the session has
\* after the turn.
C14_FallbackHasFullShape ==
  (last.kind = "ai_reply" /\ last.failed) =>
    /\ {"text", "actions", "state", "intent", "entities"} \subseteq last.response.fields
    /\ last.response.intent = LastExtracted.intent
    /\ last.response.entities = LastExtracted.entities
    /\ last.response.state = sessions[SessionKey(last.user)].currentState

\* The deployment with a store that answers: a query of the store comes back
\* with rows or with an error, and the event loop runs the continuation of
\* every call that came back.  Nothing is assumed of the completion service:
\* sendMessage posts with no timeout, and no timer ends the wait.
StoreAnswers ==
  /\ \E t \in 1..(MaxTurns + MaxRegistrationTurns), outcome \in StoreOutcomes :
       StoreReturns(t, outcome)
  /\ UNCHANGED http
LiveSpec == Init /\ [][Next]_vars /\ WF_vars(StoreAnswers)

\* C15: every call of processMessage eventually returns: a turn that has
\* begun, the one waiting for a completion that never answers included,
\* is eventually over.
C15_EveryTurnReturns ==
  \A t \in 1..MaxTurns : (t \in DOMAIN turns) ~> (t \notin DOMAIN turns)

\* A user message of the history that no assistant entry follows.
Unanswered(history) ==
  \E i \in 1..Len(history) :
     /\ history[i].role = "user"
     /\ (i = Len(history) \/ history[i + 1].role # "assistant")

\* C16: a turn that fails and answers with a fallback commits nothing.  After
\* a failed completion call the session has the state and the active product
\* it had, and, no other turn of the user waiting, its history holds no user
\* message without a reply; after a search that raised an error the session
\* has the state and the context it had before the turn.
C16_NoPartialCommit ==
  /\ (last.kind = "ai_reply" /\ last.failed) =>
       /\ sessions[SessionKey(last.user)].currentState = last.before.currentState
       /\ sessions[SessionKey(last.user)].activeProductId = last.before.activeProductId
       /\ (\A t \in DOMAIN turns : turns[t].user # last.user) =>
            ~Unanswered(sessions[SessionKey(last.user)].conversationHistory)
  /\ (last.kind = "rule" /\ last.response = SearchTrouble) =>
       /\ LastSession.state = last.before.state
       /\ LastSession.context = last.before.context

\* The history of the session the last step worked on.
LastHistory ==
  IF last.kind = "ai_reply" THEN sessions[SessionKey(last.user)].conversationHistory
  ELSE LastSession.history

\* The history holds the message of the last step with a reply after it.
HoldsLastTurn(history) ==
  \E i \in 1..(Len(history) - 1) :
     /\ history[i].role = "user" /\ history[i].content = last.msg.text
     /\ history[i + 1].role = "assistant"

\* C17: after every turn, rule-based or AI-backed, the history of the
\* session holds the user message of the turn and the reply to it, and no
\* more than the bound of turns (20 turns: 40 entries).
C17_HistoryHoldsTurn ==
  (last.kind \in {"rule", "resume", "ai_reply"} /\ last.turn \notin DOMAIN turns) =>
    /\ HoldsLastTurn(LastHistory)
    /\ Len(LastHistory) <= 2 * HistoryCap

\* C18: the replies to the messages of one user are handed to outbound
\* delivery in the order in which the messages arrived at the webhook
\* (turns are numbered by arrival).
C18_RepliesInArrivalOrder ==
  \A i, j \in 1..Len(outbox) :
     (i < j /\ outbox[i].to = outbox[j].to) => outbox[i].turn < outbox[j].turn

\* The user has a conversational session in one of the two stores.
HasSession(u) ==
  SessionKey(u) \in DOMAIN userSessions \/ SessionKey(u) \in DOMAIN sessions

\* A message of the user arrives at the webhook.
Interacts(u) == arrived' = arrived + 1 /\ last'.user = u

\* C19: a session left without interaction is eventually evicted: when from
\* some point on no message of a user arrives any more, then from some
\* point on the user has no session in either store (so that a next message
\* would find none and be handled like the first message of a new user).
C19_IdleSessionEvicted ==
  \A u \in Users : (<>[][~Interacts(u)]_vars) => <>[](~HasSession(u))

\* The state of the registration of a user, "idle" before the first message.
RegistrationStateOf(reg, u) ==
  IF SessionKey(u) \in DOMAIN reg.map THEN RegistrationOf(reg, u).state ELSE "idle"

\* The token of a message that is one invite link.
LinkToken(msg) == IF msg.toks # <<>> /\ msg.toks[1].k = "link" THEN msg.toks[1].w ELSE Null

IsCategoryWord(msg) ==
  \E c \in {"electronics", "fashion", "vehicles", "general"} : msg.toks = <<W(c)>>

\* The step of a registration that a message takes, from the state before it.
RegistrationMessageStep(u, before, after, m) ==
  CASE before = "idle" ->
         after.state = "awaiting_group_name" /\ turns' = turns
    [] before = "awaiting_group_name" /\ ~IsRegisterCommand(m) /\ ~IsCancelMessage(m) ->
         /\ after.state = "awaiting_invite_link" /\ after.groupName = m.text
         /\ turns' = turns
    [] /\ before = "awaiting_invite_link" /\ LinkToken(m) # Null
       /\ LinkToken(m) \notin DOMAIN groups \cup monitoredGroups ->
         /\ after.state = "awaiting_invite_link"
         /\ DOMAIN turns' = DOMAIN turns \cup {arrived + 1}
         /\ turns'[arrived + 1].pc = "lookup"
         /\ turns'[arrived + 1].code = LinkToken(m)
    [] before = "awaiting_category" /\ IsCategoryWord(m) ->
         /\ DOMAIN turns' = DOMAIN turns \cup {arrived + 1}
         /\ turns'[arrived + 1].pc = "register"
         /\ turns'[arrived + 1].name = RegistrationOf(registrationSessions, u).groupName
         /\ turns'[arrived + 1].code = RegistrationOf(registrationSessions, u).inviteCode
         /\ turns'[arrived + 1].category = m.toks[1].w
    [] OTHER -> TRUE

\* The step of a registration that the answer of a query takes: the lookup
\* that finds no row, for the object the store still holds, and the upsert
\* that succeeds.
RegistrationAnswerStep(u, t, after) ==
  CASE /\ turns[t].pc = "lookup" /\ turns[t].code \notin DOMAIN groups
       /\ registrationSessions.map[SessionKey(u)] = turns[t].oid ->
         /\ after.state = "awaiting_category" /\ after.inviteCode = turns[t].code
         /\ groups' = groups
    [] turns[t].pc = "register" /\ last'.response = RegistrationSucceeded ->
         /\ after.state = "idle"
         /\ DOMAIN groups' = DOMAIN groups \cup {turns[t].code}
         /\ groups'[turns[t].code] = GroupRow(turns[t].name, turns[t].category, u)
    [] OTHER -> TRUE

\* C20: the happy path of a registration.  From IDLE 'register group' leads
\* to AWAITING_GROUP_NAME; there a name leads to AWAITING_INVITE_LINK with
\* the name kept as typed; there a link whose token is not registered is
\* looked up under that token and, found in no row, leads to
\* AWAITING_CATEGORY with the token kept; there a category word makes one
\* registerGroup call with the name, the token and that category, and its
\* success leaves IDLE and one row under the token.
C20_RegistrationHappyPath ==
  [][/\ (arrived' = arrived + 1 /\ last'.kind = "group") =>
          RegistrationMessageStep(last'.user,
                                  RegistrationStateOf(registrationSessions, last'.user),
                                  RegistrationOf(registrationSessions', last'.user),
                                  last'.msg)
     /\ (last'.kind = "group_resume" /\ turns' # turns) =>
          RegistrationAnswerStep(last'.user, last'.turn,
                                 RegistrationOf(registrationSessions', last'.user))
    ]_vars

\* The four messages of the example came from one user and nothing else
\* did: the registration is over, IDLE again, with its one row.
C20_Witness ==
  /\ last.kind = "group_resume" /\ last.response = RegistrationSucceeded
  /\ arrived = 4 /\ turns = <<>>
  /\ RegistrationStateOf(registrationSessions, last.user) = "idle"
  /\ groups = ("ABC123" :> GroupRow("My Group", "electronics", last.user))

\* C21: in every registration state but IDLE the text 'cancel', in any
\* letter case and with blanks around it, puts a fresh IDLE session (no
\* name, no invite code, no category) in place of the user's, is answered
\* with the confirmation of the cancellation, and starts no query of the
\* groups store and changes none of its rows.
C21_CancelResets ==
  [][(/\ arrived' = arrived + 1 /\ last'.kind = "group"
      /\ last'.msg.text \in {"cancel", " Cancel "}
      /\ RegistrationStateOf(registrationSessions, last'.user) # "idle") =>
       /\ RegistrationOf(registrationSessions', last'.user) = NewRegistration
       /\ last'.response = RegistrationCancelled
       /\ outbox' = Append(outbox, sendWhatsAppMessage(last'.turn, last'.user,
                                                       RegistrationCancelled))
       /\ turns' = turns /\ groups' = groups /\ monitoredGroups' = monitoredGroups
    ]_vars

\* ' Cancel ' has just been answered while the user was asked for the invite
\* link of 'My Group'.
C21_Witness ==
  /\ last.kind = "group" /\ last.msg.text = " Cancel "
  /\ last.response = RegistrationCancelled
  /\ \E oid \in 1..Len(registrationSessions.heap) :
        /\ registrationSessions.heap[oid].state = "awaiting_invite_link"
        /\ registrationSessions.heap[oid].groupName = "My Group"
        /\ oid # registrationSessions.map[SessionKey(last.user)]
  /\ Cardinality(DOMAIN registrationSessions.map) = 1

\* The text has one of the two accepted forms of an invite link: a
\* chat.whatsapp.com link, or a bare token of 22 characters.
HasLinkForm(msg) ==
  \/ \E i \in 1..Len(msg.toks) : msg.toks[i].k = "link"
  \/ Len(msg.toks) = 1 /\ msg.toks[1].k = "w" /\ Len(msg.toks[1].w) = InviteCodeLen

\* C22: in AWAITING_INVITE_LINK a text of neither link form (other than
\* 'cancel', which every state accepts) is answered with the re-prompt and
\* leaves the registration session as it was (state, name, invite code) and
\* the groups store untouched, no query started.
C22_BadLinkReprompts ==
  [][(/\ arrived' = arrived + 1 /\ last'.kind = "group"
      /\ RegistrationStateOf(registrationSessions, last'.user) = "awaiting_invite_link"
      /\ ~HasLinkForm(last'.msg)
      /\ last'.msg.text \notin {"cancel", " Cancel "}) =>
       /\ last'.response = InvalidInviteLink
       /\ RegistrationOf(registrationSessions', last'.user)
            = RegistrationOf(registrationSessions, last'.user)
       /\ turns' = turns /\ groups' = groups /\ monitoredGroups' = monitoredGroups
    ]_vars

\* The object of the registration that turn t holds.
ObjectOfTurn(reg, t) == reg.heap[turns[t].oid]

\* C23: in AWAITING_INVITE_LINK a token that is already registered resets
\* the session to IDLE with the already-registered answer and starts no
\* registerGroup call; only a token that is not registered moves the
\* session to AWAITING_CATEGORY.  (The token is known registered from
\* monitoredGroups at once, or from the answer of the lookup.)
C23_RegisteredTokenShortCircuits ==
  [][/\ (/\ arrived' = arrived + 1 /\ last'.kind = "group"
         /\ RegistrationStateOf(registrationSessions, last'.user) = "awaiting_invite_link"
         /\ LinkToken(last'.msg) \in monitoredGroups) =>
          /\ RegistrationOf(registrationSessions', last'.user) = NewRegistration
          /\ last'.response = AlreadyRegistered
          /\ turns' = turns
     /\ (/\ last'.kind = "group_resume" /\ turns' # turns
         /\ turns[last'.turn].pc = "lookup") =>
          IF turns[last'.turn].code \in DOMAIN groups
          THEN /\ RegistrationOf(registrationSessions', last'.user) = NewRegistration
               /\ last'.response = AlreadyRegistered
               /\ ObjectOfTurn(registrationSessions', last'.turn).state
                    # "awaiting_category"
          ELSE registrationSessions.map[SessionKey(last'.user)] = turns[last'.turn].oid
                 => RegistrationOf(registrationSessions', last'.user).state
                      = "awaiting_category"
    ]_vars

\* C24: round trip: when registerGroup has succeeded for a token,
\* isGroupRegistered called right after it for the same token returns true,
\* whether its select would answer or fail.
C24_RegisterThenIsRegistered ==
  [][(/\ last'.kind = "group_resume" /\ turns' # turns
      /\ turns[last'.turn].pc = "register"
      /\ last'.response = RegistrationSucceeded) =>
       \A answers \in BOOLEAN :
          isGroupRegistered(monitoredGroups', groups', turns[last'.turn].code, answers)
    ]_vars

\* registerGroup has just succeeded for the token ABC123.
C24_Witness ==
  /\ last.kind = "group_resume" /\ last.response = RegistrationSucceeded
  /\ "ABC123" \in DOMAIN groups /\ "ABC123" \in monitoredGroups

\* The registration of a user as the flow sees it: the object of the store,
\* or the IDLE object that the first lookup would create.
RegistrationView(reg, u) ==
  IF SessionKey(u) \in DOMAIN reg.map THEN RegistrationOf(reg, u)
  ELSE [state |-> "idle", groupName |-> Null, inviteCode |-> Null, category |-> Null]

\* C25: the two state machines are independent: a step of a registration
\* turn (its message, or the answer of its query) leaves every
\* conversational session as it was, and a step of a processMessage turn
\* (a command, a rule-based or an AI-backed turn, or the answer of its
\* awaited call) leaves the registration of every user as it was.
C25_MachinesIndependent ==
  [][/\ (last' # last /\ last'.kind \in {"group", "group_resume"}) =>
          userSessions' = userSessions /\ sessions' = sessions
     /\ (last' # last /\ last'.kind \in {"command", "rule", "resume", "ai", "ai_reply"}) =>
          \A u \in Users : RegistrationView(registrationSessions', u)
                             = RegistrationView(registrationSessions, u)
    ]_vars

\* A user is in the middle of a registration and of a conversation at once,
\* a registration turn just taken.
C25_Witness ==
  /\ last.kind = "group"
  /\ RegistrationStateOf(registrationSessions, last.user) # "idle"
  /\ SessionKey(last.user) \in DOMAIN sessions
  /\ sessions[SessionKey(last.user)].currentState # "initial"

\* ------------------------------------------- the functions called directly
\* sendWhatsAppMessage, generateResponse and extractEntities are exported
\* and are called here with arguments of their own, whatever a conversation
\* would hand them.  A call is drawn at the start and made once.
Call(fn, toks, response, responseType, outcome, price) ==
  [fn |-> fn, toks |-> toks, response |-> response,
   responseType |-> responseType, outcome |-> outcome, price |-> price]
MaxActions == 6
ActionPool == <<"a1", "a2", "a3", "a4", "a5", "a6", "a7">>
SendInputs ==
  {Response(text, SubSeq(ActionPool, 1, n)) : text \in {"", "text"}, n \in 0..MaxActions}
    \cup {WelcomeResponse, RatingPrompt, AskCategory,
          generateResponse("search_results", "found")}

\* sendWhatsAppMessage(to, responseObj)
Send(call) ==
  /\ budget > 0
  /\ call.fn = "sendWhatsAppMessage"
  /\ outbox' = <<sendWhatsAppMessage(1, "u1", call.response)>>
  /\ last' = [kind |-> "send", response |-> call.response]
  /\ budget' = budget - 1
  /\ UNCHANGED <<useOpenRouter, inputs, userSessions, sessions, registrationSessions,
                 groups, monitoredGroups, turns, arrived>>

\* generateResponse(responseType, context), with the answers of the store
\* to the calls it makes.  A product view reads the listing and then counts
\* the view; either call can fail.
MaxPrice == 40
PriceInputs == 0..MaxPrice \cup {100000}
GenerateTypes ==
  {"search_results", "product_view", "checkout", "contact_seller",
   "payment_confirmation", "rating_submission", "unknown_type"}
GenerateOutcomes(responseType) ==
  IF responseType = "product_view"
  THEN StoreOutcomes \cup {"increment_failed"} ELSE StoreOutcomes

\* listings.incrementViews is called by a product view once the listing
\* was found, and by nothing else.
incrementViewsCalled(responseType, outcome) ==
  responseType = "product_view" /\ outcome \in {"found", "increment_failed"}

\* A fee that drops the fraction instead of rounding it.
escrowFeeTruncated(price) == (price * 5) \div 100

\* Math.round(product.price * 0.05): the nearest integer, a half going up.
EscrowPercent == 5
escrowFee(price) == (price * EscrowPercent + 50) \div 100
\* generateCheckoutResponse: total = product.price + escrowFee
checkoutTotal(price) == price + escrowFee(price)
\* generatePaymentConfirmationResponse:
\* product.price + Math.round(product.price * 0.05)
paymentTotal(price) == price + (price * EscrowPercent + 50) \div 100

Generate(call) ==
  LET responseType == call.responseType
      outcome == call.outcome
      price == call.price
  IN
  /\ budget > 0
  /\ call.fn = "generateResponse"
  /\ last' = [kind |-> "generate", responseType |-> responseType,
              outcome |-> outcome, price |-> price,
              response |-> generateResponse(responseType, outcome),
              incremented |-> incrementViewsCalled(responseType, outcome),
              fee |-> IF responseType = "checkout" /\ outcome = "found"
                      THEN escrowFee(price) ELSE 0,
              total |-> CASE responseType = "checkout" /\ outcome = "found" ->
                               checkoutTotal(price)
                          [] responseType = "payment_confirmation" /\ outcome = "found" ->
                               paymentTotal(price)
                          [] OTHER -> 0]
  /\ budget' = budget - 1
  /\ UNCHANGED <<useOpenRouter, inputs, userSessions, sessions, registrationSessions,
                 groups, monitoredGroups, turns, arrived, outbox>>

\* extractEntities(message) on texts made of a few tokens of the vocabulary.
\* PRICE_PATTERN reads a number followed by a word in f as an amount in F;
\* the texts leave that form out, their only amounts are the price tokens.
MaxExtractLen == 3
ExtractVocabulary ==
  {W("find"), W("products"), W("product"), W("help"), W("view"), W("buy"),
   W("cancel"), W("hi"), W("stars"), W("in"), W("douala"), W("under"),
   Id(3), Num(3), Price(5000, "FCFA"), Price(0, "FCFA")}
ReadsAsAmount(toks) ==
  \E i \in 1..(Len(toks) - 1) : HasDigits(toks[i]) /\ toks[i + 1] = W("find")
ExtractInputs ==
  {toks \in UNION {[1..n -> ExtractVocabulary] : n \in 1..MaxExtractLen} :
     ~ReadsAsAmount(toks)}

Extract(call) ==
  /\ budget > 0
  /\ call.fn = "extractEntities"
  /\ last' = [kind |-> "extract", toks |-> call.toks,
              result |-> extractEntities(call.toks)]
  /\ budget' = budget - 1
  /\ UNCHANGED <<useOpenRouter, inputs, userSessions, sessions, registrationSessions,
                 groups, monitoredGroups, turns, arrived, outbox>>

FunctionCalls ==
  {Call("sendWhatsAppMessage", <<>>, response, "", "", 0) : response \in SendInputs}
    \cup {Call("generateResponse", <<>>, NoResponse, c[1], c[2], c[3]) :
            c \in {d \in GenerateTypes \X (StoreOutcomes \cup {"increment_failed"}) \X PriceInputs :
                     d[2] \in GenerateOutcomes(d[1])}}
    \cup {Call("extractEntities", toks, NoResponse, "", "", 0) : toks \in ExtractInputs}

InitFunctions ==
  /\ useOpenRouter = FALSE
  /\ inputs \in {{call} : call \in FunctionCalls}
  /\ userSessions = <<>>
  /\ sessions = <<>>
  /\ registrationSessions = NoRegistrations
  /\ groups = <<>>
  /\ monitoredGroups = {}
  /\ turns = <<>>
  /\ arrived = 0
  /\ budget = 1
  /\ outbox = <<>>
  /\ last = NoStep
  /\ http = NoRequest

NextFunctions ==
  \/ \E call \in inputs : Send(call) /\ UNCHANGED http
  \/ \E call \in inputs : Generate(call) /\ UNCHANGED http
  \/ \E call \in inputs : Extract(call) /\ UNCHANGED http

SpecFunctions == InitFunctions /\ [][NextFunctions]_vars

\* C26: whatever the number of actions of a response (four, five, six),
\* the message sent carries at most three buttons, they are the first three
\* actions in their order, and a message is sent all the same.
C26_AtMostThreeButtons ==
  last.kind = "send" =>
    /\ Len(outbox) = 1
    /\ Len(outbox[1].buttons) <= 3
    /\ Len(outbox[1].buttons) =
         (IF Len(last.response.actions) < 3 THEN Len(last.response.actions) ELSE 3)
    /\ \A i \in 1..Len(outbox[1].buttons) :
         outbox[1].buttons[i] = last.response.actions[i]

C26_Witness ==
  /\ last.kind = "send"
  /\ Len(last.response.actions) = 6
  /\ outbox[1].buttons = <<"a1", "a2", "a3">>

\* C27: generateResponse always returns a text and at least one action,
\* whatever the response type (an unrecognized one included) and whatever
\* the store answers; a listing that is not found gives the not-found
\* message and no view is counted; a failing store call gives a message that
\* asks to try again later, with two actions to retry, go back or get help.
TryAgainTexts ==
  {"I'm having trouble searching for products right now. Please try again later.",
   "I'm having trouble retrieving product details right now. Please try again later.",
   "I'm having trouble processing your checkout right now. Please try again later.",
   "I'm having trouble retrieving the seller's contact information right now. Please try again later.",
   "I'm having trouble confirming your payment right now. Please try again later or contact support.",
   "I'm having trouble submitting your rating right now. Please try again later."}
RecoveryActions ==
  {"Try Again", "Help", "Back to Search", "Back to Product", "Contact Support"}
ListingLookupTypes == GenerateTypes \ {"search_results", "unknown_type"}
C28_EscrowFeeAndTotal ==
  (last.kind = "generate" /\ last.outcome = "found") =>
    /\ last.responseType = "checkout" =>
         /\ 100 * last.fee - 5 * last.price <= 50
         /\ 5 * last.price - 100 * last.fee <= 50
         /\ last.total = last.price + last.fee
         /\ paymentTotal(last.price) = last.total
         /\ last.price = 100000 => (last.fee = 5000 /\ last.total = 105000)
    /\ last.responseType = "payment_confirmation" =>
         last.total = checkoutTotal(last.price)

C28_Witness ==
  /\ last.kind = "generate"
  /\ last.responseType = "checkout"
  /\ last.outcome = "found"
  /\ last.price = 100000
  /\ last.fee = 5000
  /\ last.total = 105000

\* C29: determineIntent always returns an intent of the closed set; when
\* the walk of the pattern table returns nothing, the intent is search if one
\* of query, category, location, minPrice, maxPrice, exactPrice is present
\* in the entities, and help if none is.
IntentSet ==
  {"search", "help", "select_product", "buy", "contact_seller", "cancel",
   "refine_search", "submit_rating", "confirm_payment", "checkout",
   "track_order", "unknown"}
SearchEntityKeys ==
  {"query", "category", "location", "minPrice", "maxPrice", "exactPrice"}
TableReturns(toks, entities) ==
  \/ Contains(toks, SearchVerbWords) /\ Contains(toks, SearchNounWords)
  \/ Contains(toks, HelpWords)
  \/ Truthy(entities.productId) \/ Contains(toks, SelectWords)
  \/ Contains(toks, BuyWords)
  \/ HasContactVerb(toks) /\ Contains(toks, ContactNounWords)
  \/ Contains(toks, CancelWords)
  \/ Contains(toks, RefineWords)
  \/ Truthy(entities.rating) \/ Contains(toks, RatingWords)
  \/ Contains(toks, ConfirmVerbWords) /\ Contains(toks, ConfirmNounWords)
C29_DefaultIntent ==
  last.kind = "extract" =>
    /\ last.result.intent \in IntentSet
    /\ ~TableReturns(last.toks, last.result.entities) =>
         last.result.intent =
           (IF \E key \in SearchEntityKeys : last.result.entities[key] # Absent
            THEN "search" ELSE "help")

\* C30: an extracted product id makes the intent select_product, and an
\* extracted rating without a product id makes it submit_rating, whatever
\* patterns of the table the message matches besides.
C30_ShortCircuitsFirst ==
  last.kind = "extract" =>
    /\ last.result.entities.productId # Absent =>
         last.result.intent = "select_product"
    /\ (last.result.entities.rating # Absent
          /\ last.result.entities.productId = Absent) =>
         last.result.intent = "submit_rating"

\* The state the switch of the rule-based processMessage assigns in a
\* state for an intent and entities it is handed.
TableNext(state, intent, entities) ==
  LET r == StateSwitch([NewSession EXCEPT !.state = state],
                       [intent |-> intent, entities |-> entities, defined |-> TRUE])
  IN  IF r.thenState # "" THEN r.thenState ELSE r.session.state

EntitiesOrNone(entities) == IF entities = Undefined THEN NoEntities ELSE entities

\* C31: for the same current state and the same intent and entities of a
\* turn, the AI-backed turn leaves the session in the state the switch of
\* the rule-based turn gives (CHECKOUT with cancel goes to VIEWING_PRODUCT,
\* SEARCHING with help stays SEARCHING): the next state depends on the
\* current state, not on the intent alone.
C31_BothPathsFollowTable ==
  (last.kind = "ai_reply" /\ last.response.intent # "undefined") =>
    sessions[SessionKey(last.user)].currentState =
      TableNext(last.before.currentState, last.response.intent,
                EntitiesOrNone(last.response.entities))

\* C32: the rule-based turn switches on the intent and the entities that
\* extractEntities computed for the message of the turn, so that a search
\* message takes a fresh session to SEARCHING (and 'product #N', then
\* 'buy', on to VIEWING_PRODUCT and CHECKOUT).
C32_TurnSwitchesOnExtracted ==
  last.kind = "rule" =>
    LET e == extractEntities(last.msg.toks)
        r == TurnWith(last.before, last.msg,
                      [intent |-> e.intent, entities |-> e.entities, defined |-> TRUE])
    IN  userSessions[SessionKey(last.user)].state = r.session.state

\* C33: once the state of a rule-based session is VIEWING_PRODUCT or
\* CHECKOUT, no step takes it out of these two states, and the current
\* product id of the session is never changed.
PurchaseStates == {"viewing_product", "checkout"}
C33_PurchaseStatesClosed ==
  [][\A u \in Users :
       (SessionKey(u) \in DOMAIN userSessions
          /\ userSessions[SessionKey(u)].state \in PurchaseStates) =>
         /\ userSessions'[SessionKey(u)].state \in PurchaseStates
         /\ userSessions'[SessionKey(u)].context.currentProductId =
              userSessions[SessionKey(u)].context.currentProductId]_vars

C33_Witness ==
  /\ last.kind = "resume"
  /\ last.before.state = "checkout"
  /\ last.msg.text = "cancel"
  /\ userSessions[SessionKey(last.user)].state = "checkout"
  /\ userSessions[SessionKey(last.user)].context.currentProductId = StrV(<<Num(3)>>)

\* C34: no step of the rule-based agent sets the state of a session to
\* rating or help: a session is in one of them only if it was before the
\* step, so neither is reached from a fresh session.
C34_RatingAndHelpNeverAssigned ==
  [][\A u \in Users :
       (SessionKey(u) \in DOMAIN userSessions'
          /\ userSessions'[SessionKey(u)].state \in {"rating", "help"}) =>
         /\ SessionKey(u) \in DOMAIN userSessions
         /\ userSessions[SessionKey(u)].state = userSessions'[SessionKey(u)].state]_vars

C34_Witness ==
  /\ last.kind = "rule"
  /\ last.before = NewSession
  /\ last.msg.text = "help"
  /\ userSessions[SessionKey(last.user)].state = "initial"

\* ------------------------------------ a deployment with registrations open
\* Both users have sent 'register group', a group name and the invite link
\* of the same group, whose lookups found no row: each session waits in
\* AWAITING_CATEGORY with its name and the token.
MaxPendingTurns == 3
PendingRegistrations ==
  [map  |-> (SessionKey("u1") :> 1) @@ (SessionKey("u2") :> 2),
   heap |-> <<[state |-> "awaiting_category", groupName |-> "My Group",
               inviteCode |-> "ABC123", category |-> Null],
              [state |-> "awaiting_category", groupName |-> "electronics",
               inviteCode |-> "ABC123", category |-> Null]>>]
PendingInputs ==
  {m \in Corpus : m.text \in {"electronics", "cancel", "register group", "!boost"}}
    \cup {RegistrationCancelButton, ElectronicsButton}

InitPending ==
  /\ useOpenRouter \in BOOLEAN
  /\ inputs = PendingInputs
  /\ userSessions = <<>>
  /\ sessions = <<>>
  /\ registrationSessions = PendingRegistrations
  /\ groups = <<>>
  /\ monitoredGroups = {}
  /\ turns = <<>>
  /\ arrived = 0
  /\ budget = IF useOpenRouter THEN MaxAiTurns ELSE MaxPendingTurns
  /\ outbox = <<>>
  /\ last = NoStep
  /\ http = NoRequest

SpecPending == InitPending /\ [][Next]_vars

\* C35: once a user's 'cancel' has been answered with the cancellation of
\* the registration, no group is registered from the attempt it cancelled:
\* no registration of that user that was under way when the cancel arrived
\* succeeds after the answer.
C35_NoGroupAfterCancel ==
  (last.kind = "group_resume" /\ last.response = RegistrationSucceeded) =>
    ~\E i \in 1..Len(outbox) :
        /\ outbox[i].to = last.user
        /\ outbox[i].turn > last.turn
        /\ outbox[i].body = RegistrationCancelled.text

\* C36: registerGroup is never called with, and never writes, the token of
\* a group that is registered: no registration under way holds a token the
\* groups table has a row for.
C36_NoSecondRegistration ==
  \A t \in DOMAIN turns :
    turns[t].pc = "register" => turns[t].code \notin DOMAIN groups

\* C37: a tapped button triggers the transition it names: in CHECKOUT
\* 'Payment Sent' is answered with the payment confirmation and 'Cancel'
\* returns to the product; in VIEWING_PRODUCT 'Buy Now' reaches CHECKOUT and
\* 'Back to Search' returns to SEARCHING; in SEARCHING the button of a
\* result opens that product.
StateAfterLast == userSessions[SessionKey(last.user)].state
InRegistration(u) ==
  /\ SessionKey(u) \in DOMAIN registrationSessions.map
  /\ RegistrationOf(registrationSessions, u).state # "idle"
C38_RegistrationTakesEveryMessage ==
  [][(arrived' = arrived + 1 /\ last'.kind \in {"rule", "ai", "command"}) =>
       ~InRegistration(last'.user)]_vars

\* ------------------------------------------------ a request with its payload
\* POST /webhook with a payload of entries, each with its changes, each with
\* its messages.  The router of the search bot is mounted first, answers the
\* request and does not call next(), so the handler that server.js adds for
\* the same path (the same loop around processWebhookMessage) is never run.
MaxEntries == 2
MaxChanges == 2
MaxMessages == 2

Inbound(from, msg) == [from |-> from, msg |-> msg]
ImageMessage == [text |-> "", toks |-> <<>>, type |-> "image"]
PayloadMessages ==
  {Inbound("u1", m) : m \in {c \in Corpus : c.text = "find products"}}
    \cup {Inbound("u2", m) : m \in {c \in Corpus : c.text = "electronics"}}
    \cup {Inbound("u1", ImageMessage)}

SeqsUpTo(S, lo, hi) == UNION {[1..k -> S] : k \in lo..hi}
MessageArrays == SeqsUpTo(PayloadMessages, 0, MaxMessages)
ChangeArrays == SeqsUpTo(MessageArrays, 0, MaxChanges)
EntryArrays == SeqsUpTo(ChangeArrays, 1, MaxEntries)

\* The deployment the request comes to: the second user has sent 'register
\* group', a group name and an invite link that no row holds, and is asked
\* for the category; the first user has not written yet.
OpenRegistration ==
  [map  |-> (SessionKey("u2") :> 1),
   heap |-> <<[state |-> "awaiting_category", groupName |-> "My Group",
               inviteCode |-> "ABC123", category |-> Null]>>]

InitPayload ==
  /\ useOpenRouter \in BOOLEAN
  /\ inputs = {p.msg : p \in PayloadMessages} \ {ImageMessage}
  /\ userSessions = <<>>
  /\ sessions = <<>>
  /\ registrationSessions = OpenRegistration
  /\ groups = <<>>
  /\ monitoredGroups = {}
  /\ turns = <<>>
  /\ arrived = 0
  /\ budget = MaxEntries
  /\ outbox = <<>>
  /\ last = NoStep
  /\ http \in {[entry |-> e, acknowledged |-> FALSE, next |-> 1, taken |-> <<>>] :
                e \in EntryArrays}

\* res.status(200).send('EVENT_RECEIVED'): the first statement of the handler.
Acknowledge ==
  /\ ~http.acknowledged /\ http.entry # <<>>
  /\ http' = [http EXCEPT !.acknowledged = TRUE]
  /\ UNCHANGED <<useOpenRouter, inputs, userSessions, sessions, registrationSessions,
                 groups, monitoredGroups, turns, arrived, budget, outbox, last>>

\* The branch for a message that is neither text nor a button reply.
UnsupportedResponse ==
  Response("Sorry, I can only process text messages right now. Please send your query as text.",
           <<"Search Products", "Register Group", "Help">>)
WebhookUnsupported(u, m) ==
  /\ budget > 0
  /\ m.type \notin {"text", "button"}
  /\ outbox' = Append(outbox, sendWhatsAppMessage(arrived + 1, u, UnsupportedResponse))
  /\ arrived' = arrived + 1
  /\ budget' = budget - 1
  /\ last' = Step("unsupported", arrived + 1, u, m, NewSession, UnsupportedResponse)
  /\ UNCHANGED <<useOpenRouter, inputs, userSessions, sessions, registrationSessions,
                 groups, monitoredGroups, turns>>

\* entry.changes && entry.changes.length > 0, and the same of the messages
\* of its first change.
HasMessage(entry) == IF entry = <<>> THEN FALSE ELSE entry[1] # <<>>

\* The callback of body.entry.forEach for the entry the loop has come to.
\* It reads entry.changes[0] and change.value.messages[0] and nothing else
\* of the entry, and runs to its first awaited call.
ForEachEntry ==
  /\ http.acknowledged /\ http.next <= Len(http.entry)
  /\ \E entry \in {http.entry[http.next]} :
       /\ HasMessage(entry)
       /\ \E message \in {entry[1][1]} :
            \/ WebhookGroup(message.from, message.msg)
            \/ \E failed \in BOOLEAN : WebhookCommand(message.from, message.msg, failed)
            \/ WebhookRule(message.from, message.msg)
            \/ WebhookAI(message.from, message.msg)
            \/ WebhookUnsupported(message.from, message.msg)
  /\ http' = [http EXCEPT !.next = @ + 1,
                          !.taken = Append(@, [pos |-> <<http.next, 1, 1>>,
                                               turn |-> arrived + 1])]

\* The callback of an entry without changes, or whose first change has no
\* messages: it does nothing.
ForEachEmptyEntry ==
  /\ http.acknowledged /\ http.next <= Len(http.entry)
  /\ ~HasMessage(http.entry[http.next])
  /\ http' = [http EXCEPT !.next = @ + 1]
  /\ UNCHANGED <<useOpenRouter, inputs, userSessions, sessions, registrationSessions,
                 groups, monitoredGroups, turns, arrived, budget, outbox, last>>

\* The awaited calls come back once the loop, which is synchronous, is over.
LoopOver == http.acknowledged /\ http.next > Len(http.entry)
StoreReturnsAfterLoop ==
  /\ LoopOver
  /\ \E t \in 1..arrived, outcome \in StoreOutcomes : StoreReturns(t, outcome)
  /\ UNCHANGED http
AiReturnsAfterLoop ==
  /\ LoopOver
  /\ \E t \in 1..arrived, reply \in AiReplies : AiReturns(t, reply)
  /\ UNCHANGED http

NextPayload ==
  \/ Acknowledge
  \/ ForEachEntry
  \/ ForEachEmptyEntry
  \/ StoreReturnsAfterLoop
  \/ AiReturnsAfterLoop

SpecPayload == InitPayload /\ [][NextPayload]_vars

\* The places of the text messages of the payload, the turns taken for a
\* place and the replies handed to sendWhatsAppMessage for it.
TextPlaces ==
  {pos \in (1..MaxEntries) \X (1..MaxChanges) \X (1..MaxMessages) :
     /\ pos[1] <= Len(http.entry)
     /\ pos[2] <= Len(http.entry[pos[1]])
     /\ pos[3] <= Len(http.entry[pos[1]][pos[2]])
     /\ http.entry[pos[1]][pos[2]][pos[3]].msg.type = "text"}
TurnsOf(pos) == {k \in 1..Len(http.taken) : http.taken[k].pos = pos}
RepliesOf(pos) ==
  {k \in 1..Len(outbox) : \E j \in TurnsOf(pos) : outbox[k].turn = http.taken[j].turn}
HandlerOver == LoopOver /\ DOMAIN turns = {}

\* C39: in the turn of a handled '!' command, the body handed to outbound
\* delivery is the text the handler passed to client.sendMessage.
C39_HandlerTextIsDelivered ==
  last.kind = "command" =>
    /\ outbox # <<>>
    /\ outbox[Len(outbox)].turn = last.turn
    /\ outbox[Len(outbox)].body = last.sent

\* C40: the request is acknowledged before any message of its payload is
\* processed; no text message of the payload, whatever its entry, change and
\* place among the messages, is processed or answered twice; and once the
\* handler and the turns it started are over, each has been processed once
\* and has had one reply handed to outbound delivery.
C40_EveryTextMessageOnce ==
  /\ (http.taken # <<>> => http.acknowledged)
  /\ \A pos \in TextPlaces :
       /\ Cardinality(TurnsOf(pos)) <= 1
       /\ Cardinality(RepliesOf(pos)) <= 1
  /\ HandlerOver =>
       \A pos \in TextPlaces :
         /\ Cardinality(TurnsOf(pos)) = 1
         /\ Cardinality(RepliesOf(pos)) = 1

====
